---- MODULE Spec2Model ----
(***************************************************************************)
(* The session/authentication core of the Lumina panel backend:            *)
(* AuthHandler (backend/app/controllers/auth_controller.py), the routes    *)
(* that drive it (backend/app/routes/auth.py, setup.py) and the two        *)
(* settings of ConfigManager it reads and writes.                          *)
(*                                                                         *)
(* Time is a whole number of seconds read from one clock (time.time());    *)
(* every handler runs to completion at one reading of the clock.           *)
(***************************************************************************)
EXTENDS Integers, Sequences, FiniteSets, TLC

\* ---------------------------------------------------------------- bounds
\* The clock stops at MaxTime, at most MaxTokens tokens are ever drawn, and at
\* most MaxRecorded failures are recorded for one address between two clears.
MaxTime == 3
MaxTokens == 2
MaxRecorded == 2

\* The upstream of a relayed connection writes at most MaxUpstreamBytes bytes.
MaxUpstreamBytes == 2

\* Connections that reach the listener: the one followed and the later ones.
MaxConnections == 2

\* Calls of the token store each thread makes.
MaxCalls == 2

\* ------------------------------------------------ configuration (scaled)
\* AUTH_TOKEN_TTL_SECONDS (default 43200), AUTH_MAX_LOGIN_ATTEMPTS (default
\* 10) and AUTH_ATTEMPT_WINDOW_SECONDS (default 300), scaled to the clock.
token_ttl_seconds == 2
max_login_attempts == 2
attempt_window_seconds == 1

\* _read_http_prelude: max_bytes (8192) and the most one read asks for
\* (4096), scaled to the requests below.
max_bytes == 48

prelude_chunk == 24

\* ------------------------------------------------------------ the values
\* A string is kept as the part bcrypt reads (its first 72 bytes, head), the
\* rest (tail) and, for a bcrypt hash string, the salt it carries.  fmt says
\* whether the string starts with one of the markers $2a$, $2b$, $2y$.
Str(h, t) == [fmt |-> "plain", head |-> h, tail |-> t, salt |-> 0]

EmptyStr == Str("", "")

\* The passwords a client may send: one short one and two long ones that
\* agree on their first 72 bytes.
Passwords == {Str("a", ""), Str("b", "x"), Str("b", "y")}

\* A password that holds a character outside ASCII, and the test for it.
NonAsciiPassword == Str("non-ascii", "")

IsAscii(value) == value.head # "non-ascii"

\* bcrypt.gensalt() draws one of these (one value stands for the draw).
Salts == {1}

\* Source addresses: request.client.host, or the sentinel of routes/auth.py.
UnknownIp == "unknown"

ClientIps == {"10.0.0.1", UnknownIp}

\* Tokens: secrets.token_hex(32) draws 256 random bits; the draws are taken
\* to be pairwise distinct and are numbered in the order they are made.
EmptyToken == 0

TokenIds == 1..MaxTokens

\* A token string no draw ever returns.
ForgedToken == MaxTokens + 1

\* creds is None: no Authorization header, or not a bearer one.
NoCreds == -1

AnyToken == {EmptyToken} \cup TokenIds \cup {ForgedToken}

\* HTTPBearer(auto_error=False) yields None unless scheme and credentials
\* are both non-empty; a token not drawn yet stands for an unknown one.
Creds == {NoCreds} \cup TokenIds

VARIABLES
    now,                    \* time.time()
    tokens,                 \* AuthHandler._tokens: token -> expiry
    failed_attempts_by_ip,  \* AuthHandler._failed_attempts_by_ip: ip -> deque
    initialized,            \* settings["initialized"]
    socks5_port,            \* settings["socks5_port"]
    panel_port,             \* settings["panel_port"]
    panel_password,         \* settings["panel_password"]
    bcrypt_truncates,       \* the installed bcrypt cuts at 72 bytes (before 5.0)
                            \* or refuses longer passwords (5.0 and later)
    issued,                 \* history: token -> time create_token drew it
    revoked,                \* history: tokens removed by a revoke while live
    recorded,               \* history: ip -> failures recorded since its last clear
    last,                   \* the last call and what it answered
    thread                  \* the threads that call the token store: the call
                            \* each is in, where it stands, its locals

\* The multiplexer (http_tls_multiplexer.py) and the one connection followed.
VARIABLES
    server,                 \* serve_http_tls_multiplexer: where it stands
    enabled,                \* PANEL_HTTP_HTTPS_MUX_ENABLED
    listen_port,            \* PANEL_PORT
    target_port,            \* PANEL_HTTPS_INTERNAL_PORT
    force_domain,           \* _resolve_force_domain()
    handler,                \* _handle_client / _proxy_tls: where the thread stands
    handler_exit,           \* how the handler thread ended
    class,                  \* history: how the peeked bytes were classified
    initial,                \* initial = client.recv(32)
    data,                   \* _read_http_prelude: data
    parsed,                 \* host, path
    client_stream,          \* the bytes the client is going to write
    client_written,         \* how many of them it has written
    client_state,           \* the client end: "open", "fin" or "reset"
    upstream_written,       \* how many bytes the upstream has written
    upstream_state,         \* the upstream end: "open", "fin" or "reset"
    client_read,            \* bytes of the client read by the multiplexer
    upstream_read,          \* bytes of the upstream read by the multiplexer
    client_sock,            \* the accepted socket: "none", "open", "shutdown", "closed"
    upstream_sock,          \* the dialled socket, likewise
    to_upstream,            \* history: bytes sent to the upstream
    to_client,              \* history: relayed bytes sent to the client
    redirects,              \* history: redirect targets sent to the client
    send_redirect_calls,    \* history: calls of _send_redirect
    dials,                  \* history: ports dialled
    stop,                   \* the threading.Event of one relay
    pipe,                   \* the two _pipe threads: where each stands, its chunk
    pending,                \* later connections waiting in the listen queue
    others                  \* later connections accepted, their handler started

auth_vars == <<now, tokens, failed_attempts_by_ip, initialized, socks5_port, panel_port,
               panel_password,
               bcrypt_truncates, issued, revoked, recorded, last, thread>>

conf_vars == <<server, enabled, listen_port, target_port, force_domain>>

handler_vars == <<handler, handler_exit, class, initial, data, parsed>>

client_peer == <<client_stream, client_written, client_state>>

upstream_peer == <<upstream_written, upstream_state>>

read_vars == <<client_read, upstream_read>>

sock_vars == <<client_sock, upstream_sock>>

out_vars == <<to_upstream, to_client, redirects, send_redirect_calls, dials>>

relay_vars == <<stop, pipe>>

accept_vars == <<pending, others>>

mux_vars == <<conf_vars, handler_vars, client_peer, upstream_peer, read_vars,
              sock_vars, out_vars, relay_vars,
              accept_vars>>

vars == <<auth_vars, mux_vars>>

Restrict(f, S) == [k \in S |-> f[k]]

Max(a, b) == IF a >= b THEN a ELSE b

Min(a, b) == IF a <= b THEN a ELSE b

\* ------------------------------------------------- credential verification
\* AuthHandler._is_bcrypt_hash
IsBcryptHash(value) == value # EmptyStr /\ value.fmt = "bcrypt"

\* bcrypt.hashpw refuses a password of more than 72 bytes from bcrypt 5.0
\* on (ValueError); a bcrypt before 5.0 cuts it at 72 bytes instead.
BcryptRaises(password) == password.tail # "" /\ ~bcrypt_truncates

\* bcrypt.hashpw(password, salt) when it does not raise: the digest depends
\* on the salt and on the first 72 bytes of the password alone.
BcryptHashpw(password, salt) ==
    [fmt |-> "bcrypt", head |-> password.head, tail |-> "", salt |-> salt]

\* bcrypt.checkpw(password, hashed) when it does not raise: hash again with
\* the salt of hashed and compare.
BcryptCheckpw(password, hashed) == BcryptHashpw(password, hashed.salt) = hashed

\* A stored value that carries the marker of a bcrypt hash and after it
\* nothing bcrypt can parse: a hash damaged where it is kept.
CorruptHash == [fmt |-> "bcrypt", head |-> "", tail |-> "", salt |-> 0]

\* bcrypt.checkpw raises ValueError ("Invalid salt") on a hash it cannot parse.
BcryptMalformed(hashed) == hashed.salt \notin Salts

\* AuthHandler.hash_password with the salt gensalt drew; it raises where
\* bcrypt.hashpw does.
HashPassword(password, salt) == BcryptHashpw(password, salt)

\* AuthHandler.verify_password against a stored value; the ValueError of
\* bcrypt is caught and answered False.
VerifyPasswordAgainst(password, config_pass) ==
    IF config_pass = EmptyStr THEN FALSE
    ELSE IF IsBcryptHash(config_pass)
         THEN IF BcryptRaises(password) \/ BcryptMalformed(config_pass) THEN FALSE
              ELSE BcryptCheckpw(password, config_pass)
         ELSE password = config_pass

\* A verify_password that lets the ValueError of bcrypt.checkpw through.
VerifyPasswordRaises_Uncaught(password, config_pass) ==
    /\ IsBcryptHash(config_pass)
    /\ BcryptRaises(password) \/ BcryptMalformed(config_pass)

\* AuthHandler.verify_password raises ValueError: never, `except
\* ValueError` answers False.
VerifyPasswordRaises(password, config_pass) == FALSE

\* AuthHandler.verify_password raises TypeError: hmac.compare_digest takes
\* two str only if both are ASCII, and the legacy plaintext branch hands it
\* the password and the stored value as they are.
VerifyPasswordTypeError(password, config_pass) ==
    /\ config_pass # EmptyStr
    /\ ~IsBcryptHash(config_pass)
    /\ ~IsAscii(password) \/ ~IsAscii(config_pass)

\* AuthHandler.verify_password: against the stored credential.
VerifyPassword(password) == VerifyPasswordAgainst(password, panel_password)

\* AuthHandler.is_auth_enabled
IsAuthEnabled == initialized /\ panel_password # EmptyStr

\* ------------------------------------------------------------ token store
\* A cleanup that keeps a token through the second it expires in.
CleanupExpiredTokens_Late(toks, t) ==
    Restrict(toks, {k \in DOMAIN toks : ~(toks[k] < t)})

\* AuthHandler._cleanup_expired_tokens: what is left of the store at time t.
CleanupExpiredTokens(toks, t) ==
    Restrict(toks, {k \in DOMAIN toks : ~(toks[k] <= t)})

\* AuthHandler.is_token_valid: the answer, and the store it leaves.
IsTokenValidStore(token) ==
    IF token = EmptyToken THEN tokens ELSE CleanupExpiredTokens(tokens, now)

IsTokenValid(token) ==
    IF token = EmptyToken THEN FALSE
    ELSE token \in DOMAIN CleanupExpiredTokens(tokens, now)

\* AuthHandler.active_session_count
ActiveSessionCount == Cardinality(DOMAIN CleanupExpiredTokens(tokens, now))

\* A pop without its default raises KeyError for a token not in the store.
RevokeTokenRaises_NoDefault(toks, token) == token \notin DOMAIN toks

\* AuthHandler.revoke_token: dict.pop(token, None).
RevokeTokenStore(toks, token) == Restrict(toks, DOMAIN toks \ {token})

\* dict.pop(token, None) raises for no key.
RevokeTokenRaises(toks, token) == FALSE

\* A revoke-all that forgets the token to keep.
RevokeAllTokens_KeepNothing(keep_token) ==
    LET live == CleanupExpiredTokens(tokens, now)
    IN  [tokens |-> Restrict(live, {}), removed |-> Cardinality(DOMAIN live)]

\* AuthHandler.revoke_all_tokens: the store it leaves and the count it returns.
RevokeAllTokens(keep_token) ==
    LET live == CleanupExpiredTokens(tokens, now)
    IN  IF keep_token # NoCreds /\ keep_token # EmptyToken /\ keep_token \in DOMAIN live
        THEN [tokens  |-> (keep_token :> live[keep_token]),
              removed |-> Max(0, Cardinality(DOMAIN live) - 1)]
        ELSE [tokens  |-> Restrict(live, {}),
              removed |-> Cardinality(DOMAIN live)]

\* The next draw of secrets.token_hex(32).
NextToken == Cardinality(DOMAIN issued) + 1

\* AuthHandler.create_token: the store after the cleanup and the insertion.
CreateTokenStore(token) ==
    (token :> now + token_ttl_seconds) @@ CleanupExpiredTokens(tokens, now)

\* ---------------------------------------------------------- login throttle
\* The deque of ip, as setdefault(ip, deque()) returns it.
AttemptsOf(attempts_by_ip, ip) ==
    IF ip \in DOMAIN attempts_by_ip THEN attempts_by_ip[ip] ELSE <<>>

\* A pruning loop that already drops an entry exactly one window old.
RECURSIVE PruneAttempts_Early(_, _)
PruneAttempts_Early(attempts, t) ==
    IF attempts # <<>> /\ t - Head(attempts) >= attempt_window_seconds
    THEN PruneAttempts_Early(Tail(attempts), t)
    ELSE attempts

\* The loop of AuthHandler._can_attempt_login: popleft() while the oldest
\* entry is more than the window old.
RECURSIVE PruneAttempts(_, _)
PruneAttempts(attempts, t) ==
    IF attempts # <<>> /\ t - Head(attempts) > attempt_window_seconds
    THEN PruneAttempts(Tail(attempts), t)
    ELSE attempts

\* A _can_attempt_login that counts without dropping the stale entries.
CanAttemptLogin_StaleCounted(ip) ==
    Len(AttemptsOf(failed_attempts_by_ip, ip)) < max_login_attempts

\* AuthHandler._can_attempt_login: the answer ...
CanAttemptLogin(ip) ==
    Len(PruneAttempts(AttemptsOf(failed_attempts_by_ip, ip), now)) < max_login_attempts

\* ... and the map it leaves (setdefault makes the entry).
CanAttemptLoginMap(ip) ==
    (ip :> PruneAttempts(AttemptsOf(failed_attempts_by_ip, ip), now))
        @@ failed_attempts_by_ip

\* A _record_failed_attempt that notes the failure twice.
RecordFailedAttemptMap_Twice(attempts_by_ip, ip) ==
    (ip :> Append(Append(AttemptsOf(attempts_by_ip, ip), now), now)) @@ attempts_by_ip

\* AuthHandler._record_failed_attempt on a map.
RecordFailedAttemptMap(attempts_by_ip, ip) ==
    (ip :> Append(AttemptsOf(attempts_by_ip, ip), now)) @@ attempts_by_ip

\* A successful login that leaves the history of the address in place.
ClearAttemptsMap_Forgotten(attempts_by_ip, ip) == attempts_by_ip

\* self._failed_attempts_by_ip.pop(client_ip, None)
ClearAttemptsMap(attempts_by_ip, ip) ==
    Restrict(attempts_by_ip, DOMAIN attempts_by_ip \ {ip})

\* ------------------------------------------------------ calls and answers
\* What a call answered: the HTTP status and detail of the HTTPException it
\* raised (200 when it returned), and the value it returned.
Answer(op, ip, token, status, detail, ret) ==
    [op |-> op, ip |-> ip, token |-> token,
     status |-> status, detail |-> detail, ret |-> ret]

Bool(b) == IF b THEN 1 ELSE 0

\* A check that validates a presented token before it asks whether a
\* credential is configured at all.
GetCurrentUser_TokenFirst(creds) ==
    IF ~initialized
    THEN [status |-> 503, detail |-> "Panel is not initialized", tokens |-> tokens]
    ELSE IF creds = NoCreds
    THEN IF panel_password = EmptyStr
         THEN [status |-> 200, detail |-> "admin", tokens |-> tokens]
         ELSE [status |-> 401, detail |-> "Not authenticated", tokens |-> tokens]
    ELSE LET live == CleanupExpiredTokens(tokens, now)
         IN  IF creds \notin DOMAIN live
             THEN [status |-> 401, detail |-> "Invalid token", tokens |-> live]
             ELSE [status |-> 200, detail |-> "admin", tokens |-> live]

\* A check that asks for a bearer token before it asks whether a credential
\* is configured.
GetCurrentUser_CredsFirst(creds) ==
    IF ~initialized
    THEN [status |-> 503, detail |-> "Panel is not initialized", tokens |-> tokens]
    ELSE IF creds = NoCreds
    THEN [status |-> 401, detail |-> "Not authenticated", tokens |-> tokens]
    ELSE IF panel_password = EmptyStr
    THEN [status |-> 200, detail |-> "admin", tokens |-> tokens]
    ELSE LET live == CleanupExpiredTokens(tokens, now)
         IN  IF creds \notin DOMAIN live
             THEN [status |-> 401, detail |-> "Invalid token", tokens |-> live]
             ELSE [status |-> 200, detail |-> "admin", tokens |-> live]

\* A check that looks at the credential and the token first and at the
\* initialized flag last.
GetCurrentUser_InitializedLast(creds) ==
    IF panel_password = EmptyStr
    THEN [status |-> 200, detail |-> "admin", tokens |-> tokens]
    ELSE IF creds = NoCreds
    THEN [status |-> 401, detail |-> "Not authenticated", tokens |-> tokens]
    ELSE LET live == CleanupExpiredTokens(tokens, now)
         IN  IF creds \notin DOMAIN live
             THEN [status |-> 401, detail |-> "Invalid token", tokens |-> live]
             ELSE IF ~initialized
             THEN [status |-> 503, detail |-> "Panel is not initialized", tokens |-> live]
             ELSE [status |-> 200, detail |-> "admin", tokens |-> live]

\* A check that tells an expired token from one it never knew.
GetCurrentUser_ExpiredTold(creds) ==
    IF ~initialized
    THEN [status |-> 503, detail |-> "Panel is not initialized", tokens |-> tokens]
    ELSE IF panel_password = EmptyStr
    THEN [status |-> 200, detail |-> "admin", tokens |-> tokens]
    ELSE IF creds = NoCreds
    THEN [status |-> 401, detail |-> "Not authenticated", tokens |-> tokens]
    ELSE LET live == CleanupExpiredTokens(tokens, now)
         IN  IF creds \notin DOMAIN live
             THEN [status |-> 401,
                   detail |-> IF creds \in DOMAIN tokens THEN "Token expired"
                              ELSE "Invalid token",
                   tokens |-> live]
             ELSE [status |-> 200, detail |-> "admin", tokens |-> live]

\* AuthHandler.get_current_user: the answer and the store it leaves.
GetCurrentUser(creds) ==
    IF ~initialized
    THEN [status |-> 503, detail |-> "Panel is not initialized", tokens |-> tokens]
    ELSE IF panel_password = EmptyStr
    THEN [status |-> 200, detail |-> "admin", tokens |-> tokens]
    ELSE IF creds = NoCreds
    THEN [status |-> 401, detail |-> "Not authenticated", tokens |-> tokens]
    ELSE LET live == CleanupExpiredTokens(tokens, now)
         IN  IF creds \notin DOMAIN live
             THEN [status |-> 401, detail |-> "Invalid token", tokens |-> live]
             ELSE [status |-> 200, detail |-> "admin", tokens |-> live]

\* ===================================================== the multiplexer
\* backend/app/utils/http_tls_multiplexer.py.  A byte is its value 0..255; a
\* bytes object, and a str decoded as iso-8859-1, is a sequence of them.

\* bytes.startswith
StartsWith(s, p) == Len(p) <= Len(s) /\ SubSeq(s, 1, Len(p)) = p

\* bytes.upper / str.lower on one byte: ASCII letters only.
UpperByte(b) == IF b \in 97..122 THEN b - 32 ELSE b

LowerByte(b) == IF b \in 65..90 THEN b + 32 ELSE b

Upper(s) == [i \in 1..Len(s) |-> UpperByte(s[i])]

Lower(s) == [i \in 1..Len(s) |-> LowerByte(s[i])]

\* s.find(p, start) counted from 1: the first position at or after start
\* where p occurs in s, 0 if none.
Find(s, p, start) ==
    LET hits == {i \in start..(Len(s) - Len(p) + 1) : SubSeq(s, i, i + Len(p) - 1) = p}
    IN  IF hits = {} THEN 0 ELSE CHOOSE i \in hits : \A j \in hits : i <= j

\* p in s
Contains(s, p) == Find(s, p, 1) # 0

\* s[start:] counted from 1
From(s, start) == SubSeq(s, start, Len(s))

\* str.split(sep): the pieces between the occurrences of sep.
RECURSIVE Split(_, _)
Split(s, sep) ==
    LET i == Find(s, sep, 1)
    IN  IF i = 0 THEN <<s>>
        ELSE <<SubSeq(s, 1, i - 1)>> \o Split(From(s, i + Len(sep)), sep)

\* str.split(sep, 1): at the first occurrence only.
SplitOnce(s, sep) ==
    LET i == Find(s, sep, 1)
    IN  IF i = 0 THEN <<s>>
        ELSE <<SubSeq(s, 1, i - 1), From(s, i + Len(sep))>>

\* What str.isspace holds of in a str decoded from iso-8859-1.
Whitespace == (9..13) \cup (28..32) \cup {133, 160}

\* str.lstrip / str.rstrip / str.strip
RECURSIVE LStrip(_)
LStrip(s) == IF s # <<>> /\ s[1] \in Whitespace THEN LStrip(Tail(s)) ELSE s

RECURSIVE RStrip(_)
RStrip(s) ==
    IF s # <<>> /\ s[Len(s)] \in Whitespace THEN RStrip(SubSeq(s, 1, Len(s) - 1)) ELSE s

Strip(s) == RStrip(LStrip(s))

\* str.split(): the maximal runs of non-whitespace.
RECURSIVE SplitWhitespace(_)
SplitWhitespace(s) ==
    LET t == LStrip(s)
        ends == {i \in 1..Len(t) : t[i] \in Whitespace}
        e == IF ends = {} THEN Len(t) + 1 ELSE CHOOSE i \in ends : \A j \in ends : i <= j
    IN  IF t = <<>> THEN <<>>
        ELSE <<SubSeq(t, 1, e - 1)>> \o SplitWhitespace(From(t, e))

\* ---------------------------------------------------------- the sniffer
\* _HTTP_METHOD_PREFIXES: GET, POST, PUT, PATCH, DELETE, HEAD, OPTIONS,
\* TRACE, CONNECT, each with its trailing space.
HTTP_METHOD_PREFIXES ==
    { <<71, 69, 84, 32>>,
      <<80, 79, 83, 84, 32>>,
      <<80, 85, 84, 32>>,
      <<80, 65, 84, 67, 72, 32>>,
      <<68, 69, 76, 69, 84, 69, 32>>,
      <<72, 69, 65, 68, 32>>,
      <<79, 80, 84, 73, 79, 78, 83, 32>>,
      <<84, 82, 65, 67, 69, 32>>,
      <<67, 79, 78, 78, 69, 67, 84, 32>> }

\* _looks_like_tls
looks_like_tls(prefix) ==
    Len(prefix) >= 3 /\ prefix[1] = 22 /\ prefix[2] = 3 /\ prefix[3] <= 4

\* _looks_like_http
looks_like_http(prefix) ==
    \E method \in HTTP_METHOD_PREFIXES : StartsWith(Upper(prefix), method)

\* ---------------------------------------------------- the prelude parser
CRLF == <<13, 10>>

Colon == <<58>>

Slash == <<47>>

\* urllib.parse.scheme_chars: letters, digits, "+", "-", ".".
scheme_chars == (65..90) \cup (97..122) \cup (48..57) \cup {43, 45, 46}

\* urllib.parse._splitnetloc(url, 2): where the authority ends, at the
\* first "/", "?" or "#" after the two slashes.
SplitNetlocEnd(url) ==
    LET ends == {i \in 3..Len(url) : url[i] \in {47, 63, 35}}
    IN  IF ends = {} THEN Len(url) + 1 ELSE CHOOSE i \in ends : \A j \in ends : i <= j

\* urllib.parse.urlsplit(url) of a url without leading control characters:
\* scheme, netloc, path and query, or ValueError ("Invalid IPv6 URL") when
\* the authority holds one square bracket without the other.
urlsplit(url) ==
    LET i == Find(url, Colon, 1)
        has_scheme == /\ i > 1
                      /\ url[1] \in (65..90) \cup (97..122)
                      /\ \A k \in 1..(i - 1) : url[k] \in scheme_chars
        scheme == IF has_scheme THEN Lower(SubSeq(url, 1, i - 1)) ELSE <<>>
        rest == IF has_scheme THEN From(url, i + 1) ELSE url
        has_netloc == StartsWith(rest, <<47, 47>>)
        e == SplitNetlocEnd(rest)
        netloc == IF has_netloc THEN SubSeq(rest, 3, e - 1) ELSE <<>>
        after == IF has_netloc THEN From(rest, e) ELSE rest
        no_fragment == SplitOnce(after, <<35>>)[1]
        pq == SplitOnce(no_fragment, <<63>>)
    IN  [raises |-> Contains(netloc, <<91>>) # Contains(netloc, <<93>>),
         scheme |-> scheme,
         netloc |-> netloc,
         path |-> pq[1],
         query |-> IF Len(pq) = 2 THEN pq[2] ELSE <<>>]

\* The header loop of _parse_http_host_and_path from line k on: the value
\* of the first Host header before the first empty line, else host.
RECURSIVE HostHeader(_, _, _)
HostHeader(lines, k, host) ==
    IF k > Len(lines) \/ lines[k] = <<>> THEN host
    ELSE IF ~Contains(lines[k], Colon) THEN HostHeader(lines, k + 1, host)
    ELSE LET kv == SplitOnce(lines[k], Colon)
         IN  IF Lower(Strip(kv[1])) = <<104, 111, 115, 116>>
             THEN Strip(kv[2])
             ELSE HostHeader(lines, k + 1, host)

\* _parse_http_host_and_path; raises where urlsplit does.
parse_http_host_and_path(raw_request) ==
    LET lines == Split(raw_request, CRLF)
        parts == SplitWhitespace(lines[1])
        has_target == Len(parts) >= 2
        target == IF has_target THEN parts[2] ELSE Slash
        split == urlsplit(target)
        absolute == has_target /\ split.scheme # <<>> /\ split.netloc # <<>>
        host1 == IF absolute THEN split.netloc ELSE <<>>
        path1 == IF absolute
                 THEN (IF split.path = <<>> THEN Slash ELSE split.path)
                      \o (IF split.query # <<>> THEN <<63>> \o split.query ELSE <<>>)
                 ELSE target
    IN  [raises |-> has_target /\ split.raises,
         host |-> HostHeader(lines, 2, host1),
         path |-> IF StartsWith(path1, Slash) THEN path1 ELSE Slash \o path1]

\* --------------------------------------------------- the redirect target
\* str(n) of a port number
RECURSIVE Decimal(_)
Decimal(n) == IF n < 10 THEN <<48 + n>> ELSE Decimal(n \div 10) \o <<48 + (n % 10)>>

\* "https://"
HttpsScheme == <<104, 116, 116, 112, 115, 58, 47, 47>>

\* "localhost"
Localhost == <<108, 111, 99, 97, 108, 104, 111, 115, 116>>

\* _build_redirect_target
build_redirect_target(host_header, path, forced, https_port) ==
    LET host1 == IF host_header # <<>> THEN SplitOnce(host_header, Colon)[1] ELSE <<>>
        host2 == IF forced # <<>> THEN forced ELSE host1
        host == IF host2 = <<>> THEN Localhost ELSE host2
        netloc == IF https_port = 443 THEN host
                  ELSE host \o Colon \o Decimal(https_port)
    IN  HttpsScheme \o netloc \o (IF path = <<>> THEN Slash ELSE path)

\* What a client may write on a connection, from its first byte on.
ClientStreams ==
    \* TLS 1.0 record header, then two bytes
    { <<22, 3, 1, 7, 8>>
    \* TLS 1.3 record header and no more
    , <<22, 3, 4>>
    \* record header with minor version 5
    , <<22, 3, 5, 9>>
    \* GET /a?b=1 HTTP/1.1 CRLF Host: example.com:8080 CRLF CRLF
    , <<71, 69, 84, 32, 47, 97, 63, 98, 61, 49, 32, 72, 84, 84, 80, 47, 49,
       46, 49, 13, 10, 72, 111, 115, 116, 58, 32, 101, 120, 97, 109, 112,
       108, 101, 46, 99, 111, 109, 58, 56, 48, 56, 48, 13, 10, 13, 10>>
    \* get / HTTP/1.0 CRLF CRLF
    , <<103, 101, 116, 32, 47, 32, 72, 84, 84, 80, 47, 49, 46, 48, 13, 10, 13,
       10>>
    \* POST http://e.com/p?q HTTP/1.1 CRLF Host: f.com CRLF CRLF
    , <<80, 79, 83, 84, 32, 104, 116, 116, 112, 58, 47, 47, 101, 46, 99, 111,
       109, 47, 112, 63, 113, 32, 72, 84, 84, 80, 47, 49, 46, 49, 13, 10, 72,
       111, 115, 116, 58, 32, 102, 46, 99, 111, 109, 13, 10, 13, 10>>
    \* GET //[ HTTP/1.1 CRLF CRLF
    , <<71, 69, 84, 32, 47, 47, 91, 32, 72, 84, 84, 80, 47, 49, 46, 49, 13,
       10, 13, 10>>
    \* HEAD / HTTP/1.1 CRLF Host: [::1]:8000 CRLF CRLF
    , <<72, 69, 65, 68, 32, 47, 32, 72, 84, 84, 80, 47, 49, 46, 49, 13, 10,
       72, 111, 115, 116, 58, 32, 91, 58, 58, 49, 93, 58, 56, 48, 48, 48, 13,
       10, 13, 10>>
    \* PUT /x, no terminator
    , <<80, 85, 84, 32, 47, 120>>
    \* Patch / CRLF CRLF
    , <<80, 97, 116, 99, 104, 32, 47, 13, 10, 13, 10>>
    \* DELETE / CRLF CRLF
    , <<68, 69, 76, 69, 84, 69, 32, 47, 13, 10, 13, 10>>
    \* OPTIONS * CRLF CRLF
    , <<79, 80, 84, 73, 79, 78, 83, 32, 42, 13, 10, 13, 10>>
    \* trace / CRLF CRLF
    , <<116, 114, 97, 99, 101, 32, 47, 13, 10, 13, 10>>
    \* CONNECT h:1 CRLF CRLF
    , <<67, 79, 78, 78, 69, 67, 84, 32, 104, 58, 49, 13, 10, 13, 10>>
    \* GETX / CRLF CRLF
    , <<71, 69, 84, 88, 32, 47, 13, 10, 13, 10>>
    \* BREW / CRLF Host: h CRLF CRLF
    , <<66, 82, 69, 87, 32, 47, 13, 10, 72, 111, 115, 116, 58, 32, 104, 13,
       10, 13, 10>>
    \* GET /x...x with 46 x, no terminator
    , <<71, 69, 84, 32, 47, 120, 120, 120, 120, 120, 120, 120, 120, 120, 120,
       120, 120, 120, 120, 120, 120, 120, 120, 120, 120, 120, 120, 120, 120,
       120, 120, 120, 120, 120, 120, 120, 120, 120, 120, 120, 120, 120, 120,
       120, 120, 120, 120, 120, 120, 120, 120>>
    }

\* ------------------------------------------------------ the connection
\* PANEL_PORT and PANEL_HTTPS_INTERNAL_PORT as the environment may set them.
ListenPorts == {443, 8000, 8443}

TargetPorts == {8000}

\* PANEL_HTTP_REDIRECT_FORCE_DOMAIN as _resolve_force_domain returns it:
\* empty, or "p.io".
ForceDomains == {<<>>, <<112, 46, 105, 111>>}

\* What the upstream writes on a relayed connection.
UpstreamStream == [i \in 1..MaxUpstreamBytes |-> 200 + i]

\* A copy loop that has not been started.
NoPipe == [pc |-> "none", chunk |-> <<>>, why |-> ""]

\* The multiplexer before serve_http_tls_multiplexer runs, with no
\* connection.
NoConnection ==
    /\ handler = "none"
    /\ handler_exit = ""
    /\ class = ""
    /\ client_stream = <<>>
    /\ client_written = 0
    /\ client_state = "open"
    /\ client_read = 0
    /\ client_sock = "none"
    /\ initial = <<>>
    /\ data = <<>>
    /\ parsed = [host |-> <<>>, path |-> <<>>]
    /\ upstream_sock = "none"
    /\ upstream_written = 0
    /\ upstream_state = "open"
    /\ upstream_read = 0
    /\ to_upstream = <<>>
    /\ to_client = <<>>
    /\ redirects = <<>>
    /\ send_redirect_calls = 0
    /\ dials = <<>>
    /\ stop = FALSE
    /\ pipe = [t \in {"t1", "t2"} |-> NoPipe]
    /\ pending = 0
    /\ others = 0

\* The bytes a peer has written so far.
ClientOut == SubSeq(client_stream, 1, client_written)

UpstreamOut == SubSeq(UpstreamStream, 1, upstream_written)

\* socket.recv(bufsize) on a socket whose peer has written `written` bytes
\* of which `read` are consumed: the numbers of bytes it may return.  A read
\* returns what has arrived, at least one byte and at most bufsize.
RecvSizes(bufsize, written, read) == 1..Min(bufsize, written - read)

\* socket.recv raises OSError: the peer has reset the connection.
RecvRaises(peer_state) == peer_state = "reset"

\* socket.recv returns b"": the peer has finished sending and everything is
\* read, or this end has been shut down.
RecvEof(sock, peer_state, written, read) ==
    /\ peer_state # "reset"
    /\ \/ sock = "shutdown"
       \/ peer_state = "fin" /\ read = written

\* socket.sendall raises OSError: the peer has reset the connection, or
\* this end has been shut down.
SendRaises(sock, peer_state) == peer_state = "reset" \/ sock # "open"


\* The token operations of AuthHandler called from several threads at once.
\* CPython runs one thread at a time and switches threads between two
\* bytecodes; the steps below end where it can switch: when a call returns
\* and at the back-edge of a loop.  What a single bytecode or a single dict
\* method does is one step.
Threads == {"A", "B"}

TokenOps ==
    {"create_token", "is_token_valid", "active_session_count", "revoke_token",
     "revoke_all_tokens"}

\* ConfigManager._DEFAULTS: the ports a new data directory holds.
DefaultSocks5Port == 1080

DefaultPanelPort == 8000

\* SetupRequest: a port left out of the request (None).
NoPort == 0

\* int(req.socks5_port or 1080), int(req.panel_port or 8000)
PortOr(port, default) == IF port = NoPort THEN default ELSE port

\* A thread that is in no call, its locals cleared.
IdleThread ==
    [op |-> "", arg |-> NoCreds, pc |-> "idle", calls |-> 0, t_now |-> 0, used |-> 0, pos |-> 0,
     frozen |-> FALSE, snap |-> Restrict(<<>>, {}), expired |-> {}, keep_expiry |-> 0,
     removed |-> 0, ret |-> 0, error |-> "", took |-> {}, alone |-> TRUE]

\* The stored credential a data directory may hold when the process starts
\* on an initialized panel: none, a legacy plaintext password, the hash an
\* earlier run wrote, or a damaged hash.
StoredAtStart ==
    {EmptyStr, Str("b", "x"), CorruptHash}
        \cup {BcryptHashpw(Str("a", ""), salt) : salt \in Salts}

InitPanel ==
    /\ now = 0
    /\ tokens = Restrict(<<>>, {})
    /\ failed_attempts_by_ip = Restrict(<<>>, {})
    /\ initialized \in BOOLEAN
    /\ socks5_port = DefaultSocks5Port
    /\ panel_port = DefaultPanelPort
    /\ panel_password \in (IF initialized THEN StoredAtStart ELSE {EmptyStr})
    /\ bcrypt_truncates \in BOOLEAN
    /\ issued = Restrict(<<>>, {})
    /\ revoked = {}
    /\ recorded = [ip \in ClientIps |-> <<>>]
    /\ last = Answer("init", "", NoCreds, 200, "", 0)
    /\ thread = [t \in Threads |-> IdleThread]

\* The panel with its multiplexer not started, under the default environment
\* (PANEL_PORT 8000, PANEL_HTTPS_INTERNAL_PORT 8443, no force domain).
Init ==
    /\ InitPanel
    /\ server = "start"
    /\ enabled = TRUE
    /\ listen_port = 8000
    /\ target_port = 8443
    /\ force_domain = <<>>
    /\ NoConnection

\* The clock advances.
Tick ==
    /\ now < MaxTime
    /\ now' = now + 1
    /\ last' = Answer("tick", "", NoCreds, 200, "", 0)
    /\ UNCHANGED <<mux_vars, thread, tokens, failed_attempts_by_ip, initialized, socks5_port, panel_port, panel_password,
                   bcrypt_truncates, issued, revoked, recorded>>

\* --------------------------------------------- AuthHandler, called directly
create_token ==
    /\ NextToken <= MaxTokens
    /\ tokens' = CreateTokenStore(NextToken)
    /\ issued' = (NextToken :> now) @@ issued
    /\ last' = Answer("create_token", "", NextToken, 200, "", NextToken)
    /\ UNCHANGED <<mux_vars, thread, now, failed_attempts_by_ip, initialized, socks5_port, panel_port, panel_password,
                   bcrypt_truncates, revoked, recorded>>

is_token_valid(token) ==
    /\ tokens' = IsTokenValidStore(token)
    /\ last' = Answer("is_token_valid", "", token, 200, "", Bool(IsTokenValid(token)))
    /\ UNCHANGED <<mux_vars, thread, now, failed_attempts_by_ip, initialized, socks5_port, panel_port, panel_password,
                   bcrypt_truncates, issued, revoked, recorded>>

active_session_count ==
    /\ tokens' = CleanupExpiredTokens(tokens, now)
    /\ last' = Answer("active_session_count", "", NoCreds, 200, "", ActiveSessionCount)
    /\ UNCHANGED <<mux_vars, thread, now, failed_attempts_by_ip, initialized, socks5_port, panel_port, panel_password,
                   bcrypt_truncates, issued, revoked, recorded>>

\* History: the issued tokens a revoke_token(token) call revokes ...
RevokedByOne(token) == {token} \cap DOMAIN issued

\* ... and those a revoke_all_tokens(keep_token) call revokes: every issued
\* token but keep_token, if that one is valid at the call.
RevokedByAll(keep_token) ==
    DOMAIN issued \ (IF IsTokenValid(keep_token) THEN {keep_token} ELSE {})

revoke_token(token) ==
    /\ tokens' = RevokeTokenStore(tokens, token)
    /\ revoked' = revoked \cup RevokedByOne(token)
    /\ last' = IF RevokeTokenRaises(tokens, token)
               THEN Answer("revoke_token", "", token, 500, "KeyError", 0)
               ELSE Answer("revoke_token", "", token, 200, "", 0)
    /\ UNCHANGED <<mux_vars, thread, now, failed_attempts_by_ip, initialized, socks5_port, panel_port, panel_password,
                   bcrypt_truncates, issued, recorded>>

revoke_all_tokens(keep_token) ==
    \E r \in {RevokeAllTokens(keep_token)} :
        /\ tokens' = r.tokens
        /\ revoked' = revoked \cup RevokedByAll(keep_token)
        /\ last' = Answer("revoke_all_tokens", "", keep_token, 200, "", r.removed)
        /\ UNCHANGED <<mux_vars, thread, now, failed_attempts_by_ip, initialized, socks5_port, panel_port, panel_password,
                       bcrypt_truncates, issued, recorded>>

can_attempt_login(ip) ==
    /\ failed_attempts_by_ip' = CanAttemptLoginMap(ip)
    /\ last' = Answer("_can_attempt_login", ip, NoCreds, 200, "", Bool(CanAttemptLogin(ip)))
    /\ UNCHANGED <<mux_vars, thread, now, tokens, initialized, socks5_port, panel_port, panel_password, bcrypt_truncates,
                   issued, revoked, recorded>>

record_failed_attempt(ip) ==
    /\ Len(recorded[ip]) < MaxRecorded
    /\ failed_attempts_by_ip' = RecordFailedAttemptMap(failed_attempts_by_ip, ip)
    /\ recorded' = [recorded EXCEPT ![ip] = Append(@, now)]
    /\ last' = Answer("_record_failed_attempt", ip, NoCreds, 200, "", 0)
    /\ UNCHANGED <<mux_vars, thread, now, tokens, initialized, socks5_port, panel_port, panel_password, bcrypt_truncates,
                   issued, revoked>>

\* A safety-net migration that lets the error of hash_password through.
MigrationRaises_Uncaught ==
    ~IsBcryptHash(panel_password) /\ BcryptRaises(panel_password)

\* The safety-net migration of authenticate raises: never, it runs under
\* `except Exception`.
MigrationRaises == FALSE

\* An authenticate that looks at the password before it asks the throttle.
AuthenticateExit_VerifyFirst(password, client_ip) ==
    IF ~initialized THEN "not_initialized"
    ELSE IF panel_password = EmptyStr THEN "auth_disabled"
    ELSE IF ~VerifyPassword(password) THEN
         (IF ~CanAttemptLogin(client_ip) THEN "too_many_attempts" ELSE "invalid_password")
    ELSE "token"

\* AuthHandler.authenticate: which of its exits a call takes.
AuthenticateExit(password, client_ip) ==
    IF ~initialized THEN "not_initialized"
    ELSE IF panel_password = EmptyStr THEN "auth_disabled"
    ELSE IF ~CanAttemptLogin(client_ip) THEN "too_many_attempts"
    ELSE IF VerifyPasswordRaises(password, panel_password) THEN "verify_error"
    ELSE IF VerifyPasswordTypeError(password, panel_password) THEN "type_error"
    ELSE IF ~VerifyPassword(password) THEN "invalid_password"
    ELSE IF MigrationRaises THEN "migration_error"
    ELSE "token"

\* The safety-net migration of authenticate: the stored value after it.  A
\* failure of hash_password is caught and logged.
MigratedPassword(salt) ==
    IF ~IsBcryptHash(panel_password) /\ ~BcryptRaises(panel_password)
    THEN HashPassword(panel_password, salt)
    ELSE panel_password

\* The HTTPException of each failing exit of authenticate.
AuthenticateAnswer(exit, client_ip, token) ==
    CASE exit = "not_initialized" ->
           Answer("authenticate", client_ip, NoCreds, 400, "Panel is not initialized yet", 0)
      [] exit = "auth_disabled" ->
           Answer("authenticate", client_ip, NoCreds, 400,
                  "Authentication is disabled: configure panel password in setup", 0)
      [] exit = "too_many_attempts" ->
           Answer("authenticate", client_ip, NoCreds, 429,
                  "Too many login attempts. Please retry later.", 0)
      [] exit \in {"verify_error", "migration_error"} ->
           Answer("authenticate", client_ip, NoCreds, 500, "ValueError", 0)
      [] exit = "type_error" ->
           Answer("authenticate", client_ip, NoCreds, 500, "TypeError", 0)
      [] exit = "invalid_password" ->
           Answer("authenticate", client_ip, NoCreds, 401, "Invalid password", 0)
      [] exit = "token" ->
           Answer("authenticate", client_ip, NoCreds, 200, "", token)

\* AuthHandler.authenticate(password, client_ip); with its answer the
\* password the call was given is kept on record.
authenticate(password, client_ip) ==
    \E exit \in {AuthenticateExit(password, client_ip)} :
        /\ exit = "token" => NextToken <= MaxTokens
        /\ exit = "invalid_password" => Len(recorded[client_ip]) < MaxRecorded
        /\ failed_attempts_by_ip' =
             CASE exit \in {"not_initialized", "auth_disabled"} -> failed_attempts_by_ip
               [] exit \in {"too_many_attempts", "verify_error", "type_error",
                             "migration_error"} ->
                    CanAttemptLoginMap(client_ip)
               [] exit = "invalid_password" ->
                    RecordFailedAttemptMap(CanAttemptLoginMap(client_ip), client_ip)
               [] exit = "token" ->
                    ClearAttemptsMap(CanAttemptLoginMap(client_ip), client_ip)
        /\ recorded' =
             CASE exit = "invalid_password" ->
                    [recorded EXCEPT ![client_ip] = Append(@, now)]
               [] exit = "token" -> [recorded EXCEPT ![client_ip] = <<>>]
               [] OTHER -> recorded
        /\ \E salt \in Salts :
             panel_password' = IF exit = "token" THEN MigratedPassword(salt)
                               ELSE panel_password
        /\ tokens' = IF exit = "token" THEN CreateTokenStore(NextToken) ELSE tokens
        /\ issued' = IF exit = "token" THEN (NextToken :> now) @@ issued ELSE issued
        /\ last' = AuthenticateAnswer(exit, client_ip, NextToken)
                      @@ [password |-> password]
        /\ UNCHANGED <<mux_vars, thread, now, initialized, socks5_port, panel_port, bcrypt_truncates, revoked>>

\* AuthHandler.migrate_legacy_password_if_needed: hash_password is not
\* guarded here, so what bcrypt raises leaves the call and nothing is stored.
migrate_legacy_password_if_needed ==
    \E skip \in {panel_password = EmptyStr \/ IsBcryptHash(panel_password)} :
    \E raises \in {~skip /\ BcryptRaises(panel_password)} :
        /\ \E salt \in Salts :
             panel_password' = IF skip \/ raises THEN panel_password
                               ELSE HashPassword(panel_password, salt)
        /\ last' = IF raises
                   THEN Answer("migrate_legacy_password_if_needed", "", NoCreds,
                               500, "ValueError", Bool(FALSE))
                   ELSE Answer("migrate_legacy_password_if_needed", "", NoCreds,
                               200, "", Bool(~skip))
        /\ UNCHANGED <<mux_vars, thread, now, tokens, failed_attempts_by_ip, initialized, socks5_port, panel_port,
                       bcrypt_truncates, issued, revoked, recorded>>

\* What a direct call of verify_password answers.
VerifyPasswordAnswer(password, config_pass) ==
    IF VerifyPasswordRaises(password, config_pass)
    THEN Answer("verify_password", "", NoCreds, 500, "ValueError", 0)
    ELSE IF VerifyPasswordTypeError(password, config_pass)
    THEN Answer("verify_password", "", NoCreds, 500, "TypeError", 0)
    ELSE Answer("verify_password", "", NoCreds, 200, "",
                Bool(VerifyPasswordAgainst(password, config_pass)))

\* AuthHandler.verify_password(password)
verify_password(password) ==
    /\ last' = VerifyPasswordAnswer(password, panel_password)
    /\ UNCHANGED <<mux_vars, thread, now, tokens, failed_attempts_by_ip, initialized, socks5_port, panel_port,
                   panel_password, bcrypt_truncates, issued, revoked, recorded>>

\* AuthHandler.get_current_user(request, creds), as GET /check calls it.
get_current_user(creds) ==
    \E user \in {GetCurrentUser(creds)} :
        /\ tokens' = user.tokens
        /\ last' = Answer("get_current_user", "", creds, user.status, user.detail, 0)
        /\ UNCHANGED <<mux_vars, thread, now, failed_attempts_by_ip, initialized, socks5_port, panel_port, panel_password,
                       bcrypt_truncates, issued, revoked, recorded>>

\* ----------------------------------------------------------------- routes
\* request.client of routes/auth.py login: a host, or no client at all.
Hosts == ClientIps \ {UnknownIp}

NoClient == ""

\* A login route that files every client under the sentinel key.
login_OneBucket(password, client) == authenticate(password, UnknownIp)

\* POST /login
login(password, client) ==
    authenticate(password, IF client = NoClient THEN UnknownIp ELSE client)

\* POST /logout
logout(creds) ==
    \E user \in {GetCurrentUser(creds)} :
        /\ tokens' = IF user.status = 200 /\ creds # NoCreds
                     THEN RevokeTokenStore(user.tokens, creds)
                     ELSE user.tokens
        /\ revoked' = IF user.status = 200 /\ creds # NoCreds
                      THEN revoked \cup RevokedByOne(creds)
                      ELSE revoked
        /\ last' = Answer("logout", "", creds, user.status,
                          IF user.status = 200 THEN "" ELSE user.detail, 0)
        /\ UNCHANGED <<mux_vars, thread, now, failed_attempts_by_ip, initialized, socks5_port, panel_port, panel_password,
                       bcrypt_truncates, issued, recorded>>

\* POST /logout-all
logout_all(keep_current, creds) ==
    \E user \in {GetCurrentUser(creds)} :
    \E r \in {RevokeAllTokens(IF keep_current /\ creds # NoCreds THEN creds ELSE NoCreds)} :
        /\ tokens' = IF user.status = 200 THEN r.tokens ELSE user.tokens
        /\ revoked' = IF user.status = 200
                      THEN revoked \cup RevokedByAll(IF keep_current THEN creds ELSE NoCreds)
                      ELSE revoked
        /\ last' = Answer("logout_all", IF keep_current THEN "keep_current" ELSE "", creds,
                          user.status, IF user.status = 200 THEN "" ELSE user.detail,
                          IF user.status = 200 THEN r.removed ELSE 0)
        /\ UNCHANGED <<mux_vars, thread, now, failed_attempts_by_ip, initialized, socks5_port, panel_port, panel_password,
                       bcrypt_truncates, issued, recorded>>

\* POST /password: which exit a call takes.
ChangePasswordExit(current_password, new_password, creds) ==
    IF GetCurrentUser(creds).status # 200 THEN "dependency"
    ELSE IF panel_password = EmptyStr THEN "auth_disabled"
    ELSE IF VerifyPasswordTypeError(current_password, panel_password) THEN "type_error"
    ELSE IF ~VerifyPassword(current_password) THEN "incorrect"
    ELSE IF current_password = new_password THEN "same"
    ELSE IF BcryptRaises(new_password) THEN "hash_error"
    ELSE "updated"

\* What POST /password answers at each exit.
ChangePasswordAnswer(exit, creds, user, removed) ==
    CASE exit = "dependency" ->
           Answer("change_password", "", creds, user.status, user.detail, 0)
      [] exit = "auth_disabled" ->
           Answer("change_password", "", creds, 400, "Authentication is disabled", 0)
      [] exit = "incorrect" ->
           Answer("change_password", "", creds, 400, "Current password is incorrect", 0)
      [] exit = "same" ->
           Answer("change_password", "", creds, 400,
                  "New password must be different from current password", 0)
      [] exit = "hash_error" ->
           Answer("change_password", "", creds, 500, "ValueError", 0)
      [] exit = "type_error" ->
           Answer("change_password", "", creds, 500, "TypeError", 0)
      [] exit = "updated" ->
           Answer("change_password", "", creds, 200, "Password updated", removed)

\* POST /password
change_password(current_password, new_password, creds) ==
    \E user \in {GetCurrentUser(creds)} :
    \E exit \in {ChangePasswordExit(current_password, new_password, creds)} :
    \E r \in {RevokeAllTokens(creds)} :
        /\ \E salt \in Salts :
             panel_password' = IF exit = "updated" THEN HashPassword(new_password, salt)
                               ELSE panel_password
        /\ tokens' = IF exit = "updated" THEN r.tokens ELSE user.tokens
        /\ revoked' = IF exit = "updated" THEN revoked \cup RevokedByAll(creds)
                      ELSE revoked
        /\ last' = ChangePasswordAnswer(exit, creds, user, r.removed)
        /\ UNCHANGED <<mux_vars, thread, now, failed_attempts_by_ip, initialized, socks5_port, panel_port, bcrypt_truncates,
                       issued, recorded>>

\* An initialize_panel without its test of the initialized flag.
InitializeRefused_Never == FALSE

\* POST /initialize: the request is refused on an initialized panel.
InitializeRefused == initialized

\* POST /initialize (routes/setup.py).  hash_password is called before the
\* first set, so what bcrypt raises leaves the settings as they were; ret
\* is restart_required.
initialize_panel(new_password, req_socks5_port, req_panel_port) ==
    \E done \in {~InitializeRefused /\ ~BcryptRaises(new_password)} :
        /\ \E salt \in Salts :
             panel_password' = IF done THEN HashPassword(new_password, salt)
                               ELSE panel_password
        /\ socks5_port' = IF done THEN PortOr(req_socks5_port, DefaultSocks5Port)
                          ELSE socks5_port
        /\ panel_port' = IF done THEN PortOr(req_panel_port, DefaultPanelPort)
                         ELSE panel_port
        /\ initialized' = (initialized \/ done)
        /\ last' = (IF InitializeRefused
                    THEN Answer("initialize_panel", "", NoCreds, 409,
                                "Panel is already initialized", 0)
                    ELSE IF BcryptRaises(new_password)
                    THEN Answer("initialize_panel", "", NoCreds, 500, "ValueError", 0)
                    ELSE Answer("initialize_panel", "", NoCreds, 200,
                                "Initialization completed", Bool(panel_port' # panel_port)))
                      @@ [password |-> new_password]
        /\ UNCHANGED <<mux_vars, thread, now, tokens, failed_attempts_by_ip, bcrypt_truncates,
                       issued, revoked, recorded>>

\* ------------------------------------------------------- specifications
\* The panel as its clients drive it: the routes, and the clock.
Next ==
    \/ Tick
    \/ \E password \in Passwords, client \in Hosts : login(password, client)
    \/ \E creds \in Creds : get_current_user(creds)
    \/ \E creds \in Creds : logout(creds)
    \/ \E keep_current \in BOOLEAN, creds \in Creds : logout_all(keep_current, creds)
    \/ \E current_password \in Passwords, new_password \in Passwords, creds \in Creds :
         change_password(current_password, new_password, creds)
    \/ \E new_password \in Passwords : initialize_panel(new_password, NoPort, NoPort)

Spec == Init /\ [][Next]_vars

\* The token store of one AuthHandler, its methods called directly.
InitStore == Init /\ ~initialized /\ bcrypt_truncates

NextStore ==
    \/ Tick
    \/ create_token
    \/ \E token \in AnyToken : is_token_valid(token)
    \/ active_session_count
    \/ \E token \in AnyToken : revoke_token(token)
    \/ \E keep_token \in AnyToken \cup {NoCreds} : revoke_all_tokens(keep_token)

SpecStore == InitStore /\ [][NextStore]_vars

\* ---------------------------------------- the token store under threads
\* The thread is inside a call.
Running(u) == thread[u].pc \notin {"idle", "done"}

\* Thread t takes a step that leaves it as rec; a call of another thread
\* that is under way is no longer alone.
Stepped(t, rec) ==
    thread' = [u \in Threads |->
                 IF u = t THEN rec
                 ELSE IF Running(u) THEN [thread[u] EXCEPT !.alone = FALSE]
                 ELSE thread[u]]

\* The call of t returns ret, or raises error; took are the tokens it removed.
Returned(t, ret, error, took) ==
    [IdleThread EXCEPT !.op = thread[t].op, !.arg = thread[t].arg, !.pc = "done",
                       !.calls = thread[t].calls,
                       !.ret = ret, !.error = error, !.took = took,
                       !.alone = thread[t].alone]

\* Where a call goes once _cleanup_expired_tokens has returned.
AfterCleanup(op) ==
    CASE op = "create_token" -> "store"
      [] op = "is_token_valid" -> "contains"
      [] op = "active_session_count" -> "len"
      [] op = "revoke_all_tokens" -> "count"

\* Thread t calls op(arg).  is_token_valid returns False for an empty token
\* at once; revoke_token has no cleanup; the others call
\* _cleanup_expired_tokens first.
thread_call(t, op, arg) ==
    /\ ~Running(t)
    /\ thread[t].calls < MaxCalls
    /\ op = "create_token" =>
         Cardinality(DOMAIN issued)
           + Cardinality({u \in Threads : Running(u) /\ thread[u].op = "create_token"})
           < MaxTokens
    /\ op \in {"create_token", "active_session_count"} => arg = NoCreds
    /\ op \in {"is_token_valid", "revoke_token"} => arg # NoCreds
    /\ Stepped(t,
         LET alone == \A u \in Threads \ {t} : ~Running(u)
             begun == [IdleThread EXCEPT !.op = op, !.arg = arg, !.alone = alone,
                                         !.calls = thread[t].calls + 1]
         IN  IF op = "is_token_valid" /\ arg = EmptyToken
             THEN [begun EXCEPT !.pc = "done", !.ret = Bool(FALSE)]
             ELSE IF op = "revoke_token" THEN [begun EXCEPT !.pc = "pop"]
             ELSE [begun EXCEPT !.pc = "iter"])
    /\ UNCHANGED <<mux_vars, now, tokens, failed_attempts_by_ip, initialized, socks5_port, panel_port,
                   panel_password, bcrypt_truncates, issued, revoked, recorded, last>>

\* _cleanup_expired_tokens: now = time.time(), and the list comprehension
\* takes an iterator over self._tokens.items(); the iterator remembers the
\* size of the dict.
cleanup_iter(t) ==
    /\ thread[t].pc = "iter"
    /\ Stepped(t, [thread[t] EXCEPT !.pc = "next", !.t_now = now,
                                    !.used = Cardinality(DOMAIN tokens), !.pos = 0])
    /\ UNCHANGED <<mux_vars, now, tokens, failed_attempts_by_ip, initialized, socks5_port, panel_port,
                   panel_password, bcrypt_truncates, issued, revoked, recorded, last>>

\* The dict the iterator of t runs over: self._tokens, or the dict that was
\* self._tokens until another thread bound a new one to the attribute.
Iterated(t) == IF thread[t].frozen THEN thread[t].snap ELSE tokens

\* One turn of the list comprehension: the iterator raises RuntimeError
\* ("dictionary changed size during iteration") when the size of the dict
\* is not what it was, else yields the next entry in insertion order, an
\* expired one is kept for removal; when it is exhausted the pops follow.
cleanup_next(t) ==
    /\ thread[t].pc = "next"
    /\ LET d == Iterated(t)
           rest == {k \in DOMAIN d : k > thread[t].pos}
           k == CHOOSE k \in rest : \A j \in rest : k <= j
       IN  Stepped(t,
             IF Cardinality(DOMAIN d) # thread[t].used
             THEN Returned(t, 0, "RuntimeError", {})
             ELSE IF rest # {}
             THEN [thread[t] EXCEPT !.pos = k,
                                    !.expired = IF d[k] <= thread[t].t_now
                                                THEN @ \cup {k} ELSE @]
             ELSE [thread[t] EXCEPT !.pc = IF thread[t].expired = {}
                                           THEN AfterCleanup(thread[t].op) ELSE "prune",
                                    !.used = 0, !.pos = 0, !.frozen = FALSE,
                                    !.snap = Restrict(<<>>, {})])
    /\ UNCHANGED <<mux_vars, now, tokens, failed_attempts_by_ip, initialized, socks5_port, panel_port,
                   panel_password, bcrypt_truncates, issued, revoked, recorded, last>>

\* for token in expired: self._tokens.pop(token, None), one turn.
cleanup_pop(t) ==
    /\ thread[t].pc = "prune"
    /\ LET k == CHOOSE k \in thread[t].expired : \A j \in thread[t].expired : k <= j
           left == thread[t].expired \ {k}
       IN  /\ tokens' = RevokeTokenStore(tokens, k)
           /\ Stepped(t, [thread[t] EXCEPT !.expired = left,
                                           !.pc = IF left = {}
                                                  THEN AfterCleanup(thread[t].op)
                                                  ELSE "prune"])
    /\ UNCHANGED <<mux_vars, now, failed_attempts_by_ip, initialized, socks5_port, panel_port,
                   panel_password, bcrypt_truncates, issued, revoked, recorded, last>>

\* create_token: token = secrets.token_hex(32);
\* self._tokens[token] = time.time() + ttl; return token.  Tokens are
\* numbered in the order they enter the dict.
create_token_store(t) ==
    /\ thread[t].pc = "store"
    /\ tokens' = (NextToken :> now + token_ttl_seconds) @@ tokens
    /\ issued' = (NextToken :> now) @@ issued
    /\ Stepped(t, Returned(t, NextToken, "", {}))
    /\ UNCHANGED <<mux_vars, now, failed_attempts_by_ip, initialized, socks5_port, panel_port,
                   panel_password, bcrypt_truncates, revoked, recorded, last>>

\* is_token_valid: return token in self._tokens
is_token_valid_contains(t) ==
    /\ thread[t].pc = "contains"
    /\ Stepped(t, Returned(t, Bool(thread[t].arg \in DOMAIN tokens), "", {}))
    /\ UNCHANGED <<mux_vars, now, tokens, failed_attempts_by_ip, initialized, socks5_port, panel_port,
                   panel_password, bcrypt_truncates, issued, revoked, recorded, last>>

\* active_session_count: return len(self._tokens)
active_session_count_len(t) ==
    /\ thread[t].pc = "len"
    /\ Stepped(t, Returned(t, Cardinality(DOMAIN tokens), "", {}))
    /\ UNCHANGED <<mux_vars, now, tokens, failed_attempts_by_ip, initialized, socks5_port, panel_port,
                   panel_password, bcrypt_truncates, issued, revoked, recorded, last>>

\* revoke_token: self._tokens.pop(token, None)
revoke_token_pop(t) ==
    /\ thread[t].pc = "pop"
    /\ tokens' = RevokeTokenStore(tokens, thread[t].arg)
    /\ revoked' = revoked \cup ({thread[t].arg} \cap DOMAIN tokens)
    /\ Stepped(t, Returned(t, 0, "", {thread[t].arg} \cap DOMAIN tokens))
    /\ UNCHANGED <<mux_vars, now, failed_attempts_by_ip, initialized, socks5_port, panel_port,
                   panel_password, bcrypt_truncates, issued, recorded, last>>

\* revoke_all_tokens, up to the count: with a keep_token that is in the
\* dict keep_expiry = self._tokens[keep_token] and
\* removed = max(0, len(self._tokens) - 1), else removed = len(self._tokens).
revoke_all_tokens_count(t) ==
    /\ thread[t].pc = "count"
    /\ LET keep_token == thread[t].arg
           kept == keep_token \notin {NoCreds, EmptyToken} /\ keep_token \in DOMAIN tokens
       IN  Stepped(t,
             IF kept
             THEN [thread[t] EXCEPT !.pc = "rebind", !.keep_expiry = tokens[keep_token],
                                    !.removed = Max(0, Cardinality(DOMAIN tokens) - 1)]
             ELSE [thread[t] EXCEPT !.pc = "clear",
                                    !.removed = Cardinality(DOMAIN tokens)])
    /\ UNCHANGED <<mux_vars, now, tokens, failed_attempts_by_ip, initialized, socks5_port, panel_port,
                   panel_password, bcrypt_truncates, issued, revoked, recorded, last>>

\* revoke_all_tokens, the removal: self._tokens = {keep_token: keep_expiry}
\* binds a new dict (an iterator another thread holds goes on over the old
\* one), or self._tokens.clear() empties the dict in place; return removed.
revoke_all_tokens_remove(t) ==
    /\ thread[t].pc \in {"rebind", "clear"}
    /\ LET keep_token == thread[t].arg
           rebind == thread[t].pc = "rebind"
           took == IF rebind THEN DOMAIN tokens \ {keep_token} ELSE DOMAIN tokens
           done == Returned(t, thread[t].removed, "", took)
       IN  /\ tokens' = IF rebind THEN (keep_token :> thread[t].keep_expiry)
                        ELSE Restrict(<<>>, {})
           /\ revoked' = revoked \cup took
           /\ thread' = [u \in Threads |->
                           IF u = t THEN done
                           ELSE IF ~Running(u) THEN thread[u]
                           ELSE IF rebind /\ thread[u].pc = "next" /\ ~thread[u].frozen
                           THEN [thread[u] EXCEPT !.alone = FALSE, !.frozen = TRUE,
                                                  !.snap = tokens]
                           ELSE [thread[u] EXCEPT !.alone = FALSE]]
    /\ UNCHANGED <<mux_vars, now, failed_attempts_by_ip, initialized, socks5_port, panel_port,
                   panel_password, bcrypt_truncates, issued, recorded, last>>

\* The next step of the call thread t is in.
ThreadStep(t) ==
    \/ cleanup_iter(t)
    \/ cleanup_next(t)
    \/ cleanup_pop(t)
    \/ create_token_store(t)
    \/ is_token_valid_contains(t)
    \/ active_session_count_len(t)
    \/ revoke_token_pop(t)
    \/ revoke_all_tokens_count(t)
    \/ revoke_all_tokens_remove(t)

\* The token arguments of the calls: a token the store has issued or is
\* going to issue; and keep_token = None.
NextThreads ==
    \/ Tick
    \/ \E t \in Threads, op \in TokenOps, arg \in TokenIds \cup {NoCreds} :
         thread_call(t, op, arg)
    \/ \E t \in Threads : ThreadStep(t)

SpecThreads == InitStore /\ [][NextThreads]_vars

\* The login throttle of one AuthHandler, its methods called directly.
NextThrottle ==
    \/ Tick
    \/ \E ip \in ClientIps : can_attempt_login(ip)
    \/ \E ip \in ClientIps : record_failed_attempt(ip)

SpecThrottle == InitStore /\ [][NextThrottle]_vars

\* The login flow and the protected-request check of one AuthHandler under
\* any stored configuration, called directly; create_token puts tokens in
\* the store whatever the configuration.
NextHandler ==
    \/ Tick
    \/ create_token
    \/ \E password \in Passwords, client_ip \in Hosts : authenticate(password, client_ip)
    \/ migrate_legacy_password_if_needed
    \/ \E password \in Passwords : verify_password(password)
    \/ \E creds \in Creds \cup {ForgedToken} : get_current_user(creds)

SpecHandler == Init /\ [][NextHandler]_vars

\* The login route alone under any stored configuration (bcrypt before
\* 5.0), called by a client with an address and by clients without one, with
\* the passwords a client can type: the one behind the stored hash, the
\* stored plaintext, and one with a character outside ASCII.
TypedPasswords == {Str("a", ""), Str("b", "x"), NonAsciiPassword}

Clients == Hosts \cup {NoClient}

NextLogin ==
    \/ Tick
    \/ \E password \in TypedPasswords, client \in Clients : login(password, client)

InitLogin == Init /\ bcrypt_truncates

SpecLogin == InitLogin /\ [][NextLogin]_vars

\* ------------------------------------------------------------ the peers
\* The client writes more of its stream: the next byte, or all the rest.
client_send ==
    /\ client_sock \in {"open", "shutdown"}
    /\ client_state = "open"
    /\ client_written < Len(client_stream)
    /\ \E n \in {client_written + 1, Len(client_stream)} : client_written' = n
    /\ UNCHANGED <<auth_vars, accept_vars, conf_vars, handler_vars, client_stream, client_state,
                   upstream_peer, read_vars, sock_vars, out_vars, relay_vars>>

\* The client finishes sending (shutdown(SHUT_WR)), or resets the connection.
client_close ==
    /\ client_sock \in {"open", "shutdown"}
    /\ client_state \in {"open", "fin"}
    /\ \E s \in {"fin", "reset"} : s # client_state /\ client_state' = s
    /\ UNCHANGED <<auth_vars, accept_vars, conf_vars, handler_vars, client_stream, client_written,
                   upstream_peer, read_vars, sock_vars, out_vars, relay_vars>>

\* The upstream writes more of its stream.
upstream_send ==
    /\ upstream_sock \in {"open", "shutdown"}
    /\ upstream_state = "open"
    /\ \E n \in (upstream_written + 1)..Len(UpstreamStream) : upstream_written' = n
    /\ UNCHANGED <<auth_vars, accept_vars, conf_vars, handler_vars, client_peer, upstream_state,
                   read_vars, sock_vars, out_vars, relay_vars>>

\* The upstream finishes sending, or resets the connection.
upstream_close ==
    /\ upstream_sock \in {"open", "shutdown"}
    /\ upstream_state \in {"open", "fin"}
    /\ \E s \in {"fin", "reset"} : s # upstream_state /\ upstream_state' = s
    /\ UNCHANGED <<auth_vars, accept_vars, conf_vars, handler_vars, client_peer, upstream_written,
                   read_vars, sock_vars, out_vars, relay_vars>>

\* --------------------------------------------------------- the listener
\* serve_http_tls_multiplexer up to its accept loop: it returns when the
\* multiplexer is disabled or the two ports are equal, else binds and listens.
ServeOutcome_NoPortCheck ==
    IF ~enabled THEN "disabled" ELSE "listening"

ServeOutcome ==
    IF ~enabled THEN "disabled"
    ELSE IF listen_port = target_port THEN "refused"
    ELSE "listening"

serve_http_tls_multiplexer ==
    /\ server = "start"
    /\ server' = ServeOutcome
    /\ UNCHANGED <<auth_vars, accept_vars, enabled, listen_port, target_port, force_domain,
                   handler_vars, client_peer, upstream_peer, read_vars, sock_vars,
                   out_vars, relay_vars>>

\* An accept loop that calls _handle_client itself: it is back at
\* server.accept() only when no handler is running.
AcceptReady_Inline == handler \in {"none", "closed"}

\* The accept loop is at server.accept(): always, Thread(...).start()
\* returns at once and the loop goes round.
AcceptReady == TRUE

\* server.accept() returns a connection and _handle_client is started on a
\* thread of its own.
accept(stream) ==
    /\ server = "listening"
    /\ AcceptReady
    /\ handler = "none"
    /\ handler' = "recv_initial"
    /\ client_stream' = stream
    /\ client_sock' = "open"
    /\ UNCHANGED <<auth_vars, accept_vars, conf_vars, handler_exit, class, initial, data, parsed,
                   client_written, client_state, upstream_peer, read_vars,
                   upstream_sock, out_vars, relay_vars>>

\* A further client connects while the first connection is being handled;
\* the connection waits in the queue of server.listen(256).
connect ==
    /\ server = "listening"
    /\ handler # "none"
    /\ 1 + pending + others < MaxConnections
    /\ pending' = pending + 1
    /\ UNCHANGED <<auth_vars, conf_vars, handler_vars, client_peer, upstream_peer,
                   read_vars, sock_vars, out_vars, relay_vars, others>>

\* server.accept() returns a later connection and its _handle_client is
\* started on a thread of its own, wherever the earlier handlers stand.
accept_next ==
    /\ server = "listening"
    /\ AcceptReady
    /\ pending > 0
    /\ pending' = pending - 1
    /\ others' = others + 1
    /\ UNCHANGED <<auth_vars, conf_vars, handler_vars, client_peer, upstream_peer,
                   read_vars, sock_vars, out_vars, relay_vars>>

\* ------------------------------------------------------ _handle_client
\* Which way _handle_client goes on the bytes it peeked.
Classify_CaseSensitive(prefix) ==
    IF looks_like_tls(prefix) THEN "tls"
    ELSE IF \E method \in HTTP_METHOD_PREFIXES : StartsWith(prefix, method) THEN "http"
    ELSE "unknown"

Classify(prefix) ==
    IF looks_like_tls(prefix) THEN "tls"
    ELSE IF looks_like_http(prefix) THEN "http"
    ELSE "unknown"

\* The step of _handle_client a classification leads to.
Dispatch(kind) ==
    CASE kind = "tls" -> "dial"
      [] kind = "http" -> "read_prelude"
      [] kind = "unknown" -> "send_redirect"

\* host, path = "", "/"
DefaultTarget == [host |-> <<>>, path |-> Slash]

\* A handler that returns and leaves the client socket open.
HandlerReturns_Leaked(exit) ==
    /\ handler' = "closed"
    /\ handler_exit' = exit
    /\ UNCHANGED client_sock

\* The handler returns (or raises) and `with client` closes the socket.
HandlerReturns(exit) ==
    /\ handler' = "closed"
    /\ handler_exit' = exit
    /\ client_sock' = "closed"

\* _handle_client, its first read: client.recv(32), then the dispatch.  On
\* the HTTP path initial is handed to _read_http_prelude, which keeps it as
\* data.
handle_client ==
    /\ handler = "recv_initial"
    /\ \/ /\ RecvRaises(client_state)
          /\ HandlerReturns("recv_error")
          /\ UNCHANGED <<class, initial, data, parsed, client_read>>
       \/ /\ RecvEof(client_sock, client_state, client_written, client_read)
          /\ HandlerReturns("eof")
          /\ UNCHANGED <<class, initial, data, parsed, client_read>>
       \/ /\ ~RecvRaises(client_state)
          /\ \E k \in RecvSizes(32, client_written, client_read) :
             \E prefix \in {SubSeq(client_stream, 1, k)} :
               /\ client_read' = k
               /\ class' = Classify(prefix)
               /\ initial' = IF class' = "http" THEN <<>> ELSE prefix
               /\ data' = IF class' = "http" THEN prefix ELSE <<>>
               /\ parsed' = DefaultTarget
               /\ handler' = Dispatch(class')
               /\ UNCHANGED <<handler_exit, client_sock>>
    /\ UNCHANGED <<auth_vars, accept_vars, conf_vars, client_peer, upstream_peer, upstream_read,
                   upstream_sock, out_vars, relay_vars>>

\* _read_http_prelude, one turn of its loop, and on leaving it
\* _parse_http_host_and_path.
LeavePrelude(raw) ==
    \E r \in {parse_http_host_and_path(raw)} :
        IF r.raises
        THEN HandlerReturns("ValueError") /\ UNCHANGED parsed
        ELSE /\ parsed' = [host |-> r.host, path |-> r.path]
             /\ handler' = "send_redirect"
             /\ UNCHANGED <<handler_exit, client_sock>>

read_http_prelude ==
    /\ handler = "read_prelude"
    /\ IF Contains(data, CRLF \o CRLF) \/ Len(data) >= max_bytes
       THEN LeavePrelude(data) /\ UNCHANGED <<data, client_read>>
       ELSE \/ /\ \/ RecvRaises(client_state)
                  \/ RecvEof(client_sock, client_state, client_written, client_read)
               /\ LeavePrelude(data)
               /\ UNCHANGED <<data, client_read>>
            \/ /\ ~RecvRaises(client_state)
               /\ \E k \in RecvSizes(Min(prelude_chunk, max_bytes - Len(data)),
                                     client_written, client_read) :
                    /\ data' = data \o SubSeq(client_stream, client_read + 1, client_read + k)
                    /\ client_read' = client_read + k
               /\ UNCHANGED <<handler, handler_exit, parsed, client_sock>>
    /\ UNCHANGED <<auth_vars, accept_vars, conf_vars, class, initial, client_peer, upstream_peer,
                   upstream_read, upstream_sock, out_vars, relay_vars>>

\* _build_redirect_target and _send_redirect, then the handler returns; an
\* OSError of sendall is swallowed.
send_redirect ==
    /\ handler = "send_redirect"
    /\ send_redirect_calls' = send_redirect_calls + 1
    /\ redirects' =
         IF SendRaises(client_sock, client_state) THEN redirects
         ELSE Append(redirects,
                     build_redirect_target(parsed.host, parsed.path, force_domain, listen_port))
    /\ HandlerReturns("redirected")
    /\ UNCHANGED <<auth_vars, accept_vars, conf_vars, class, initial, data, parsed, client_peer,
                   upstream_peer, read_vars, upstream_sock, to_upstream, to_client,
                   dials, relay_vars>>

\* ----------------------------------------------------------- _proxy_tls
\* socket.create_connection(("127.0.0.1", target_port), timeout=5.0): it
\* connects, or raises OSError and _proxy_tls returns.
proxy_tls_dial ==
    /\ handler = "dial"
    /\ dials' = Append(dials, target_port)
    /\ \/ /\ upstream_sock' = "open"
          /\ handler' = "send_initial"
          /\ UNCHANGED <<handler_exit, client_sock>>
       \/ /\ HandlerReturns("dial_failed")
          /\ UNCHANGED upstream_sock
    /\ UNCHANGED <<auth_vars, accept_vars, conf_vars, class, initial, data, parsed, client_peer,
                   upstream_peer, read_vars, to_upstream, to_client, redirects,
                   send_redirect_calls, relay_vars>>

\* What upstream.sendall(initial) puts on the wire.
ForwardInitial_Dropped(peeked) == <<>>

ForwardInitial(peeked) == peeked

\* upstream.sendall(initial), then the two copy loops are started; when
\* sendall raises, `with upstream` closes the socket and _proxy_tls returns.
proxy_tls_send_initial ==
    /\ handler = "send_initial"
    /\ IF SendRaises(upstream_sock, upstream_state)
       THEN /\ HandlerReturns("send_failed")
            /\ upstream_sock' = "closed"
            /\ UNCHANGED <<to_upstream, relay_vars>>
       ELSE /\ to_upstream' = to_upstream \o ForwardInitial(initial)
            /\ stop' = FALSE
            /\ pipe' = [t \in {"t1", "t2"} |-> [pc |-> "loop", chunk |-> <<>>, why |-> ""]]
            /\ handler' = "join"
            /\ UNCHANGED <<handler_exit, sock_vars>>
    /\ UNCHANGED <<auth_vars, accept_vars, conf_vars, class, initial, data, parsed, client_peer,
                   upstream_peer, read_vars, to_client, redirects,
                   send_redirect_calls, dials>>

\* t1.join(); t2.join(); then `with upstream` and `with client` close.
proxy_tls_join ==
    /\ handler = "join"
    /\ \A t \in {"t1", "t2"} : pipe[t].pc = "done"
    /\ HandlerReturns("relayed")
    /\ upstream_sock' = "closed"
    /\ UNCHANGED <<auth_vars, accept_vars, conf_vars, class, initial, data, parsed, client_peer,
                   upstream_peer, read_vars, out_vars, relay_vars>>

\* ---------------------------------------------------------------- _pipe
\* t1 copies from the client to the upstream, t2 the other way.
FromClient(t) == t = "t1"

SrcSock(t) == IF FromClient(t) THEN client_sock ELSE upstream_sock

DstSock(t) == IF FromClient(t) THEN upstream_sock ELSE client_sock

SrcState(t) == IF FromClient(t) THEN client_state ELSE upstream_state

DstState(t) == IF FromClient(t) THEN upstream_state ELSE client_state

SrcWritten(t) == IF FromClient(t) THEN client_written ELSE upstream_written

SrcRead(t) == IF FromClient(t) THEN client_read ELSE upstream_read

SrcStream(t) == IF FromClient(t) THEN client_stream ELSE UpstreamStream

\* The upstream socket carries the timeout of create_connection (5.0 s): a
\* recv on it that gets nothing in that time raises socket.timeout, an OSError.
RecvTimesOut(t) ==
    /\ ~FromClient(t)
    /\ SrcSock(t) = "open"
    /\ SrcState(t) = "open"
    /\ SrcRead(t) = SrcWritten(t)

\* while not stop.is_set()
pipe_loop(t) ==
    /\ pipe[t].pc = "loop"
    /\ pipe' = IF stop THEN [pipe EXCEPT ![t].pc = "finally", ![t].why = "stop"]
               ELSE [pipe EXCEPT ![t].pc = "recv"]
    /\ UNCHANGED <<auth_vars, accept_vars, conf_vars, handler_vars, client_peer, upstream_peer,
                   read_vars, sock_vars, out_vars, stop>>

\* chunk = src.recv(65536); if not chunk: break
pipe_recv(t) ==
    /\ pipe[t].pc = "recv"
    /\ \/ /\ \E why \in {"reset", "eof", "shutdown"} :
               /\ CASE why = "reset" -> RecvRaises(SrcState(t))
                    [] why = "eof" ->
                         /\ SrcSock(t) = "open"
                         /\ RecvEof(SrcSock(t), SrcState(t), SrcWritten(t), SrcRead(t))
                    [] why = "shutdown" ->
                         /\ SrcSock(t) # "open"
                         /\ RecvEof(SrcSock(t), SrcState(t), SrcWritten(t), SrcRead(t))
               /\ pipe' = [pipe EXCEPT ![t].pc = "finally", ![t].why = why]
          /\ UNCHANGED read_vars
       \/ /\ ~RecvRaises(SrcState(t))
          /\ \E k \in RecvSizes(65536, SrcWritten(t), SrcRead(t)) :
               /\ pipe' = [pipe EXCEPT ![t].pc = "sendall",
                                        ![t].chunk = SubSeq(SrcStream(t), SrcRead(t) + 1,
                                                            SrcRead(t) + k)]
               /\ client_read' = IF FromClient(t) THEN client_read + k ELSE client_read
               /\ upstream_read' = IF FromClient(t) THEN upstream_read ELSE upstream_read + k
    /\ UNCHANGED <<auth_vars, accept_vars, conf_vars, handler_vars, client_peer, upstream_peer,
                   sock_vars, out_vars, stop>>

\* src.recv(65536) raises socket.timeout: the source stayed silent too long.
pipe_recv_timeout(t) ==
    /\ pipe[t].pc = "recv"
    /\ RecvTimesOut(t)
    /\ pipe' = [pipe EXCEPT ![t].pc = "finally", ![t].why = "timeout"]
    /\ UNCHANGED <<auth_vars, accept_vars, conf_vars, handler_vars, client_peer, upstream_peer,
                   read_vars, sock_vars, out_vars, stop>>

\* What sendall(chunk) adds to the bytes already sent.
Sent_Dropped(sent, chunk) == sent

Sent(sent, chunk) == sent \o chunk

\* dst.sendall(chunk)
pipe_sendall(t) ==
    /\ pipe[t].pc = "sendall"
    /\ IF SendRaises(DstSock(t), DstState(t))
       THEN /\ pipe' = [pipe EXCEPT ![t].pc = "finally", ![t].chunk = <<>>,
                                    ![t].why = IF DstState(t) = "reset" THEN "reset"
                                               ELSE "shutdown"]
            /\ UNCHANGED <<to_upstream, to_client>>
       ELSE /\ pipe' = [pipe EXCEPT ![t].pc = "loop", ![t].chunk = <<>>]
            /\ to_upstream' = IF FromClient(t) THEN Sent(to_upstream, pipe[t].chunk)
                              ELSE to_upstream
            /\ to_client' = IF FromClient(t) THEN to_client
                            ELSE Sent(to_client, pipe[t].chunk)
    /\ UNCHANGED <<auth_vars, accept_vars, conf_vars, handler_vars, client_peer, upstream_peer,
                   read_vars, sock_vars, redirects, send_redirect_calls, dials, stop>>

\* socket.shutdown(SHUT_RDWR); it raises OSError on a socket that is not
\* connected any more, which _pipe swallows.
Shutdown_Skipped(sock) == sock

Shutdown(sock) == IF sock = "open" THEN "shutdown" ELSE sock

\* finally: stop.set(); src.shutdown(SHUT_RDWR); dst.shutdown(SHUT_RDWR)
pipe_finally(t) ==
    /\ pipe[t].pc = "finally"
    /\ stop' = TRUE
    /\ client_sock' = Shutdown(client_sock)
    /\ upstream_sock' = Shutdown(upstream_sock)
    /\ pipe' = [pipe EXCEPT ![t].pc = "done"]
    /\ UNCHANGED <<auth_vars, accept_vars, conf_vars, handler_vars, client_peer, upstream_peer,
                   read_vars, out_vars>>

\* ------------------------------------------------------- specifications
\* The environment serve_http_tls_multiplexer starts in.
InitMultiplexer ==
    /\ InitPanel /\ ~initialized /\ bcrypt_truncates
    /\ NoConnection
    /\ server = "start"
    /\ enabled \in BOOLEAN
    /\ listen_port \in ListenPorts
    /\ target_port \in TargetPorts
    /\ force_domain \in ForceDomains

\* The steps of the threads of the multiplexer on one connection.
HandlerStep ==
    \/ handle_client
    \/ read_http_prelude
    \/ send_redirect
    \/ proxy_tls_dial
    \/ proxy_tls_send_initial
    \/ proxy_tls_join

PipeStep(t) ==
    \/ pipe_loop(t)
    \/ pipe_recv(t)
    \/ pipe_sendall(t)
    \/ pipe_finally(t)

\* The steps of the two ends of the connection.
PeerStep ==
    \/ client_send
    \/ client_close
    \/ upstream_send
    \/ upstream_close

\* The multiplexer under any environment, with a client of any kind.
NextMultiplexer ==
    \/ serve_http_tls_multiplexer
    \/ \E stream \in ClientStreams : accept(stream)
    \/ PeerStep
    \/ HandlerStep
    \/ \E t \in {"t1", "t2"} : PipeStep(t)
    \/ \E t \in {"t1", "t2"} : pipe_recv_timeout(t)

SpecMultiplexer == InitMultiplexer /\ [][NextMultiplexer]_vars

\* The multiplexer under the default environment with a client that opens
\* with a TLS record header.
TlsStreams == {stream \in ClientStreams : looks_like_tls(stream)}

InitRelay ==
    /\ InitMultiplexer
    /\ enabled
    /\ listen_port = 443
    /\ force_domain = <<>>

NextRelay ==
    \/ serve_http_tls_multiplexer
    \/ \E stream \in TlsStreams : accept(stream)
    \/ PeerStep
    \/ handle_client
    \/ send_redirect
    \/ proxy_tls_dial
    \/ proxy_tls_send_initial
    \/ proxy_tls_join
    \/ \E t \in {"t1", "t2"} : PipeStep(t)
    \/ \E t \in {"t1", "t2"} : pipe_recv_timeout(t)

SpecRelay == InitRelay /\ [][NextRelay]_vars

\* The same, every thread of the multiplexer taking its next step whenever
\* it can; the two peers are under no obligation, and an upstream that
\* stays silent need not stay so until the timeout.
SpecRelayFair ==
    /\ SpecRelay
    /\ WF_vars(handle_client)
    /\ WF_vars(send_redirect)
    /\ WF_vars(proxy_tls_dial)
    /\ WF_vars(proxy_tls_send_initial)
    /\ WF_vars(proxy_tls_join)
    /\ \A t \in {"t1", "t2"} : WF_vars(PipeStep(t))

\* The listener with later connections arriving while the first one is
\* handled: a TLS client and a plaintext one.
AcceptStreams ==
    { <<22, 3, 4>>,
      <<103, 101, 116, 32, 47, 32, 72, 84, 84, 80, 47, 49, 46, 48, 13, 10, 13, 10>> }

NextAccept ==
    \/ serve_http_tls_multiplexer
    \/ \E stream \in AcceptStreams : accept(stream)
    \/ connect
    \/ accept_next
    \/ PeerStep
    \/ HandlerStep
    \/ \E t \in {"t1", "t2"} : PipeStep(t)
    \/ \E t \in {"t1", "t2"} : pipe_recv_timeout(t)

SpecAccept == InitRelay /\ [][NextAccept]_vars

\* The same, the accept loop taking its next step whenever it can; no
\* handler thread and no peer is under any obligation, each may stall for
\* ever.
SpecAcceptFair == SpecAccept /\ WF_vars(accept_next)

\* ------------------------------------------------------------ properties
\* The failures recorded for ip since its last clear that lie within the
\* trailing window.
FailuresInWindow(ip) ==
    Cardinality({i \in DOMAIN recorded[ip] :
                   now - recorded[ip][i] <= attempt_window_seconds})

\* The tokens whose lifetime is running: issued, not yet ttl seconds old,
\* never revoked.
InLifetime(token) ==
    /\ token \in DOMAIN issued
    /\ now < issued[token] + token_ttl_seconds
    /\ token \notin revoked

\* C1: token lifecycle.  A token returned by create_token is valid right
\* after it was issued and for as long as fewer than ttl seconds have passed
\* since and no revoke has named it; it is invalid from the second its ttl
\* has elapsed and after a revoke; the empty token and a token never issued
\* are invalid; and is_token_valid answers exactly that.
C1_TokenLifecycle ==
    /\ \A token \in DOMAIN issued : IsTokenValid(token) <=> InLifetime(token)
    /\ \A token \in AnyToken \ DOMAIN issued : ~IsTokenValid(token)
    /\ ~IsTokenValid(EmptyToken)
    /\ last.op = "create_token" => IsTokenValid(last.ret)
    /\ last.op = "is_token_valid" => last.ret = Bool(InLifetime(last.token))

\* C1 witness: is_token_valid has just answered False for an issued token
\* that was never revoked (its ttl has elapsed) while another token is valid.
C1_Witness ==
    /\ last.op = "is_token_valid"
    /\ last.ret = 0
    /\ last.token \in DOMAIN issued \ revoked
    /\ \E other \in DOMAIN issued : IsTokenValid(other)

\* C2: revoke-all-except.  A revoke_all_tokens(keep_token = t1) called while
\* t1 is valid leaves t1 valid with the expiry it had, and leaves no other
\* token valid.
C2_RevokeAllExcept ==
    [][\A t1 \in AnyToken :
         (last'.op = "revoke_all_tokens" /\ last'.token = t1 /\ IsTokenValid(t1))
         => /\ IsTokenValid(t1)'
            /\ tokens'[t1] = tokens[t1]
            /\ \A t \in AnyToken \ {t1} : ~IsTokenValid(t)'
            /\ last'.ret = Cardinality({t \in AnyToken \ {t1} : IsTokenValid(t)})]_vars

\* C2 witness: revoke_all_tokens has just kept a valid token and removed
\* another one.
C2_Witness ==
    /\ last.op = "revoke_all_tokens"
    /\ last.ret >= 1
    /\ IsTokenValid(last.token)
    /\ revoked # {}

\* C3: idempotent revoke.  revoke_token never raises, whatever the token
\* (unknown, empty, already revoked); it leaves the validity of every other
\* token as it was, the token itself invalid, and revoking the same token
\* once more would change nothing.
C3_IdempotentRevoke ==
    [][\A token \in AnyToken :
         (last'.op = "revoke_token" /\ last'.token = token)
         => /\ last'.status = 200
            /\ \A other \in AnyToken \ {token} :
                 IsTokenValid(other)' = IsTokenValid(other)
            /\ ~IsTokenValid(token)'
            /\ RevokeTokenStore(tokens', token) = tokens']_vars

\* C3 witness: revoke_token has just been called with a token that was never
\* issued, and with one revoked before, while another token is valid.
C3_Witness ==
    /\ last.op = "revoke_token"
    /\ last.status = 200
    /\ last.token \notin DOMAIN tokens
    /\ last.token = ForgedToken \/ last.token \in revoked
    /\ \E other \in DOMAIN issued : IsTokenValid(other)

\* C4: throttle window.  _can_attempt_login(ip) is true exactly when fewer
\* than max_login_attempts of the failures recorded for ip lie within the
\* trailing window: max_login_attempts failures inside the window make it
\* false, and it is true again once they are more than the window old.
C4_ThrottleWindow ==
    /\ \A ip \in ClientIps :
         CanAttemptLogin(ip) <=> FailuresInWindow(ip) < max_login_attempts
    /\ last.op = "_can_attempt_login"
         => last.ret = Bool(FailuresInWindow(last.ip) < max_login_attempts)

\* C4 witness: _can_attempt_login has just answered True for an address
\* with max_login_attempts recorded failures, all of them out of the window.
C4_Witness ==
    /\ last.op = "_can_attempt_login"
    /\ last.ret = 1
    /\ Len(recorded[last.ip]) >= max_login_attempts
    /\ FailuresInWindow(last.ip) = 0

\* The outcome kinds of the login flow, read off the answer of authenticate.
LoginOutcome(answer) ==
    CASE answer.status = 400 /\ answer.detail = "Panel is not initialized yet"
           -> "NotInitialized"
      [] answer.status = 400 /\ answer.detail
              = "Authentication is disabled: configure panel password in setup"
           -> "AuthDisabled"
      [] answer.status = 429 -> "RateLimited"
      [] answer.status = 401 /\ answer.detail = "Invalid password" -> "InvalidCredential"
      [] answer.status = 200 /\ answer.ret \in TokenIds -> "Token"
      [] OTHER -> "none"

CheckOutcome(answer) ==
    CASE answer.status = 200 /\ answer.detail = "admin" -> "Granted"
      [] answer.status = 401 /\ answer.detail = "Not authenticated" -> "Unauthenticated"
      [] answer.status = 401 /\ answer.detail = "Invalid token" -> "InvalidToken"
      [] answer.status = 503 /\ answer.detail = "Panel is not initialized"
           -> "NotInitialized"
      [] OTHER -> "none"

\* C7 as stated: on an initialized panel, without a bearer token identity is
\* granted iff the credential is empty and the call fails Unauthenticated
\* otherwise; with a bearer token identity is granted iff the token is valid
\* in the token store and the call fails InvalidToken otherwise.
C7_AsStated ==
    (last.op = "get_current_user" /\ initialized)
    => IF last.token = NoCreds
       THEN CheckOutcome(last) =
              IF panel_password = EmptyStr THEN "Granted" ELSE "Unauthenticated"
       ELSE CheckOutcome(last) =
              IF IsTokenValid(last.token) THEN "Granted" ELSE "InvalidToken"

\* C7 as amended: on an initialized panel with an empty credential identity
\* is granted whether or not a bearer token is presented and whatever that
\* token is; with a credential set, without a bearer token the call fails
\* Unauthenticated, and with one identity is granted iff the token is valid
\* in the token store and the call fails InvalidToken otherwise.
C7_ProtectedCheck ==
    (last.op = "get_current_user" /\ initialized)
    => CheckOutcome(last) =
         IF panel_password = EmptyStr THEN "Granted"
         ELSE IF last.token = NoCreds THEN "Unauthenticated"
         ELSE IF IsTokenValid(last.token) THEN "Granted"
         ELSE "InvalidToken"

\* C7 witness: on an initialized panel with an empty credential a call that
\* presented a token not in the store has just been granted identity.
C7_Witness ==
    /\ last.op = "get_current_user"
    /\ initialized
    /\ panel_password = EmptyStr
    /\ last.token # NoCreds
    /\ ~IsTokenValid(last.token)
    /\ CheckOutcome(last) = "Granted"

\* C8: authentication disabled.  While the panel is initialized and the
\* stored credential is empty, every protected call is granted the fixed
\* identity "admin", with or without a token and whatever the token store
\* holds, and the call leaves the store as it was.
C8_AuthDisabled ==
    [][\A creds \in Creds \cup {ForgedToken} :
         (last'.op = "get_current_user" /\ last'.token = creds
            /\ initialized /\ panel_password = EmptyStr)
         => /\ last'.status = 200
            /\ last'.detail = "admin"
            /\ tokens' = tokens]_vars

\* C8 witness: with authentication disabled and a live token in the store, a
\* call without any token has just been granted identity.
C8_Witness ==
    /\ last.op = "get_current_user"
    /\ initialized
    /\ panel_password = EmptyStr
    /\ last.token = NoCreds
    /\ \E token \in DOMAIN tokens : IsTokenValid(token)
    /\ last.detail = "admin"

\* C9: uninitialized panel.  While initialized is false every protected
\* call fails NotInitialized, with or without a token and even for a token
\* that is valid in the store; a login fails NotInitialized as well, issues
\* no token and records no failure for the address.
C9_Uninitialized ==
    [][~initialized
         => /\ last'.op = "get_current_user"
                 => /\ CheckOutcome(last') = "NotInitialized"
                    /\ tokens' = tokens
            /\ last'.op = "authenticate"
                 => /\ LoginOutcome(last') = "NotInitialized"
                    /\ last'.ret = 0
                    /\ tokens' = tokens
                    /\ issued' = issued
                    /\ failed_attempts_by_ip' = failed_attempts_by_ip
                    /\ recorded' = recorded]_vars

\* C9 witness: on an uninitialized panel a protected call that presented a
\* token valid in the store has just failed NotInitialized.
C9_Witness ==
    /\ ~initialized
    /\ last.op = "get_current_user"
    /\ IsTokenValid(last.token)
    /\ CheckOutcome(last) = "NotInitialized"

\* C10: a password change succeeds only for a caller that presents a valid
\* token and the current password and a new password that differs from it;
\* after a successful change the new password verifies against the stored
\* credential and the old one does not, the presented token is still valid
\* and no other token is.
C10_PasswordChange ==
    [][\A current_password \in Passwords, new_password \in Passwords, creds \in Creds :
         (last'.op = "change_password" /\ last'.status = 200
            /\ change_password(current_password, new_password, creds))
         => /\ IsTokenValid(creds)
            /\ VerifyPassword(current_password)
            /\ new_password # current_password
            /\ VerifyPassword(new_password)'
            /\ ~VerifyPassword(current_password)'
            /\ IsTokenValid(creds)'
            /\ \A other \in AnyToken \ {creds} : ~IsTokenValid(other)']_vars

\* What does hold of every successful password change: all of C10, its
\* clause on the old password only where bcrypt refuses passwords of more
\* than 72 bytes instead of cutting them.
C10_PasswordChangeButOld ==
    [][\A current_password \in Passwords, new_password \in Passwords, creds \in Creds :
         (last'.op = "change_password" /\ last'.status = 200
            /\ change_password(current_password, new_password, creds))
         => /\ IsTokenValid(creds)
            /\ VerifyPassword(current_password)
            /\ new_password # current_password
            /\ VerifyPassword(new_password)'
            /\ (bcrypt_truncates \/ ~VerifyPassword(current_password)')
            /\ IsTokenValid(creds)'
            /\ \A other \in AnyToken \ {creds} : ~IsTokenValid(other)']_vars

\* C11: plaintext never survives a successful login: whenever authenticate
\* returns a token, the stored panel_password is a bcrypt hash string when
\* the call returns.
C11_PlaintextNeverSurvives ==
    [][(last'.op = "authenticate" /\ last'.status = 200)
         => IsBcryptHash(panel_password')]_vars

\* What does hold of every successful login: the stored value is a hash
\* when the call returns unless it was a plaintext of more than 72 bytes
\* and bcrypt refused to hash it, and then it is left as it was.
C11_PlaintextSurvivesOnlyHashFailure ==
    [][(last'.op = "authenticate" /\ last'.status = 200)
         => \/ IsBcryptHash(panel_password')
            \/ /\ ~IsBcryptHash(panel_password)
               /\ BcryptRaises(panel_password)
               /\ panel_password' = panel_password]_vars

\* C12: legacy migration preserves the password: from a plaintext stored
\* credential p (which verifies against itself), migration leaves a value
\* recognised as hashed against which p still verifies and returns true; a
\* migration call on a hashed value returns false and stores nothing.
C12_MigrationPreserves ==
    [][last'.op = "migrate_legacy_password_if_needed"
         => /\ (panel_password # EmptyStr /\ ~IsBcryptHash(panel_password))
               => /\ VerifyPassword(panel_password)
                  /\ last'.status = 200
                  /\ last'.ret = Bool(TRUE)
                  /\ IsBcryptHash(panel_password')
                  /\ VerifyPasswordAgainst(panel_password, panel_password')
            /\ IsBcryptHash(panel_password)
               => /\ last'.status = 200
                  /\ last'.ret = Bool(FALSE)
                  /\ panel_password' = panel_password]_vars

\* C13: hash round trip: for all passwords p, hash_password(p) returns a
\* value against which p verifies, and against which no p2 # p verifies.
C13_HashRoundTrip ==
    \A p \in Passwords, salt \in Salts :
        /\ ~BcryptRaises(p)
        /\ VerifyPasswordAgainst(p, HashPassword(p, salt))
        /\ \A p2 \in Passwords \ {p} : ~VerifyPasswordAgainst(p2, HashPassword(p, salt))

\* What does hold of the round trip: it holds among passwords of at most
\* 72 bytes, and a hash made of p is verified by p.
C13_HashRoundTripShort ==
    \A p \in Passwords, salt \in Salts :
        ~BcryptRaises(p) =>
            /\ VerifyPasswordAgainst(p, HashPassword(p, salt))
            /\ \A p2 \in Passwords \ {p} :
                 (p.tail = "" /\ p2.tail = "")
                    => ~VerifyPasswordAgainst(p2, HashPassword(p, salt))

\* ------------------------------------------- properties: the multiplexer
\* A TLS record header: 0x16, 0x03, then a byte from 0x00 to 0x04.
IsTlsRecordHeader(prefix) ==
    /\ Len(prefix) >= 3
    /\ prefix[1] = 22
    /\ prefix[2] = 3
    /\ prefix[3] \in 0..4

\* The nine method tokens with their trailing space: get, post, put, patch,
\* delete, head, options, trace, connect.
MethodTokens ==
    { <<103, 101, 116, 32>>,
      <<112, 111, 115, 116, 32>>,
      <<112, 117, 116, 32>>,
      <<112, 97, 116, 99, 104, 32>>,
      <<100, 101, 108, 101, 116, 101, 32>>,
      <<104, 101, 97, 100, 32>>,
      <<111, 112, 116, 105, 111, 110, 115, 32>>,
      <<116, 114, 97, 99, 101, 32>>,
      <<99, 111, 110, 110, 101, 99, 116, 32>> }

\* prefix starts with a method token, letters compared without case.
StartsWithMethodToken(prefix) ==
    \E token \in MethodTokens :
        /\ Len(prefix) >= Len(token)
        /\ \A i \in 1..Len(token) : LowerByte(prefix[i]) = token[i]

Sniffed(prefix) ==
    IF IsTlsRecordHeader(prefix) THEN "tls"
    ELSE IF StartsWithMethodToken(prefix) THEN "http"
    ELSE "unknown"

\* C14: the classification is a function of the peeked prefix alone: TLS
\* iff it has at least 3 bytes 0x16, 0x03, <= 0x04; otherwise HTTP iff it
\* starts, case-insensitively, with one of the nine method tokens and its
\* space; otherwise unknown; and no prefix is both TLS and HTTP.
C14_SnifferClassification ==
    [][(handler = "recv_initial" /\ class' # "")
         => LET prefix == SubSeq(client_stream, 1, client_read')
            IN  /\ class' = Sniffed(prefix)
                /\ ~(IsTlsRecordHeader(prefix) /\ StartsWithMethodToken(prefix))
                /\ prefix = IF class' = "http" THEN data' ELSE initial']_vars

\* "get " in lower case was peeked, no more, and classified HTTP.
C14_Witness ==
    /\ class = "http"
    /\ handler = "read_prelude"
    /\ data = <<103, 101, 116, 32>>

\* C15: two-way dispatch.  A connection classified TLS is dialled to the
\* upstream and no redirect is ever written to it; one classified HTTP or
\* unknown is never dialled and, when its handler has ended, has been sent
\* exactly one redirect (which arrived unless the client had reset the
\* connection); unknown uses the empty host and the path "/".
C15_TwoWayDispatch ==
    /\ class = "tls" =>
         /\ send_redirect_calls = 0 /\ redirects = <<>>
         /\ handler \in {"send_initial", "join", "closed"} => dials = <<target_port>>
    /\ class \in {"http", "unknown"} =>
         /\ dials = <<>> /\ upstream_sock = "none" /\ to_upstream = <<>>
         /\ send_redirect_calls = Len(redirects) \/ client_state = "reset"
         /\ send_redirect_calls = (IF handler = "closed" THEN 1 ELSE 0)
    /\ (class = "unknown" /\ redirects # <<>>) =>
         redirects = <<build_redirect_target(<<>>, Slash, force_domain, listen_port)>>

\* What does hold of the dispatch: C15, but for the HTTP connection whose
\* request target makes urlsplit raise; its handler thread dies of the
\* ValueError and the socket is closed with no redirect written.
C15_DispatchButMalformedTarget ==
    /\ class = "tls" =>
         /\ send_redirect_calls = 0 /\ redirects = <<>>
         /\ handler \in {"send_initial", "join", "closed"} => dials = <<target_port>>
    /\ class \in {"http", "unknown"} =>
         /\ dials = <<>> /\ upstream_sock = "none" /\ to_upstream = <<>>
         /\ send_redirect_calls = Len(redirects) \/ client_state = "reset"
         /\ send_redirect_calls =
              (IF handler = "closed" /\ handler_exit # "ValueError" THEN 1 ELSE 0)
         /\ handler_exit = "ValueError" => class = "http"
    /\ (class = "unknown" /\ redirects # <<>>) =>
         redirects = <<build_redirect_target(<<>>, Slash, force_domain, listen_port)>>

\* The copy loops of a relay have been started.
Relaying == pipe["t1"].pc # "none"

\* A copy loop of the relay has ended, or is ending.
RelayEnded == \E t \in {"t1", "t2"} : pipe[t].pc \in {"finally", "done"}

\* C16: relay ordering with no loss of the peeked bytes: at every moment
\* the bytes delivered to the upstream are a prefix of what the client has
\* written, starting with the peeked bytes, and the bytes delivered to the
\* client are a prefix of what the upstream has written.
C16_RelayOrdering ==
    class = "tls" =>
        /\ StartsWith(ClientOut, to_upstream)
        /\ StartsWith(UpstreamOut, to_client)
        /\ Relaying => StartsWith(to_upstream, initial)
        /\ ~Relaying => to_upstream = <<>> /\ to_client = <<>>

\* Both loops run, bytes beyond the peeked ones have reached the upstream
\* and bytes of the upstream have reached the client.
C16_Witness ==
    /\ Relaying /\ ~RelayEnded
    /\ Len(initial) = 3
    /\ Len(to_upstream) > Len(initial)
    /\ to_client # <<>>

\* Everything either side has written has been delivered to the other.
AllDelivered == to_upstream = ClientOut /\ to_client = UpstreamOut

\* A peer has reset the connection, or the upstream has stayed silent for
\* too long.
RelayFailed ==
    \/ client_state = "reset"
    \/ upstream_state = "reset"
    \/ \E t \in {"t1", "t2"} : pipe[t].why = "timeout"

\* C17 as stated: on a relayed connection that no peer resets and that
\* does not time out, all bytes written by either side arrive at the other
\* in order, including what one side writes after the other has finished
\* sending.
C17_AsStated == <>[](Relaying => (AllDelivered \/ RelayFailed))

\* C17: on a relayed connection all bytes written by either side arrive at
\* the other in order for as long as neither copy loop has ended.
C17_RelayFidelity == <>[](Relaying => (AllDelivered \/ RelayEnded))

\* Both loops run and the whole of both streams has been delivered.
C17_Witness ==
    /\ Relaying /\ ~RelayEnded
    /\ to_upstream = client_stream /\ Len(client_stream) > Len(initial)
    /\ to_client = UpstreamStream

\* C18: relay teardown propagates: a copy loop that has ended has set the
\* stop signal and shut down both sockets; then the other loop ends too,
\* _proxy_tls returns and both sockets are closed.
C18_TeardownPropagates ==
    /\ [](\A t \in {"t1", "t2"} :
            pipe[t].pc = "done" =>
                /\ stop
                /\ client_sock \in {"shutdown", "closed"}
                /\ upstream_sock \in {"shutdown", "closed"})
    /\ RelayEnded ~> (/\ \A t \in {"t1", "t2"} : pipe[t].pc = "done"
                      /\ handler = "closed" /\ handler_exit = "relayed"
                      /\ client_sock = "closed" /\ upstream_sock = "closed")

\* A relay is over and everything closed though the client never closed or
\* reset its end: the teardown came from the other loop.
C18_Witness ==
    /\ handler_exit = "relayed"
    /\ client_sock = "closed" /\ upstream_sock = "closed"
    /\ client_state = "open"
    /\ pipe["t1"].why = "shutdown"

\* A Host value with its ":port" stripped: without its last colon and the
\* digits after it, if it ends that way.
StripPort(value) ==
    LET colons == {i \in 1..Len(value) : value[i] = 58}
        last_colon == CHOOSE i \in colons : \A j \in colons : j <= i
    IN  IF colons # {} /\ \A k \in (last_colon + 1)..Len(value) : value[k] \in 48..57
        THEN SubSeq(value, 1, last_colon - 1)
        ELSE value

\* https://{host}{port-suffix}{path}
ExpectedTarget(host_value, path, forced, https_port) ==
    LET host == IF forced # <<>> THEN forced
                ELSE IF StripPort(host_value) # <<>> THEN StripPort(host_value)
                ELSE Localhost
        suffix == IF https_port = 443 THEN <<>> ELSE Colon \o Decimal(https_port)
    IN  HttpsScheme \o host \o suffix \o path

\* "example.com:8080", "/a?b=1"
ExampleHost ==
    <<101, 120, 97, 109, 112, 108, 101, 46, 99, 111, 109, 58, 56, 48, 56, 48>>

ExamplePath == <<47, 97, 63, 98, 61, 49>>

\* "https://example.com/a?b=1", "https://example.com:8443/a?b=1"
ExampleTarget443 ==
    <<104, 116, 116, 112, 115, 58, 47, 47, 101, 120, 97, 109, 112, 108, 101, 46,
      99, 111, 109, 47, 97, 63, 98, 61, 49>>

ExampleTarget8443 ==
    <<104, 116, 116, 112, 115, 58, 47, 47, 101, 120, 97, 109, 112, 108, 101, 46,
      99, 111, 109, 58, 56, 52, 52, 51, 47, 97, 63, 98, 61, 49>>

\* The redirect sent is the one for the parsed host and path, and the
\* example of the specification comes out as given.
RedirectAsExpected ==
    /\ redirects = <<ExpectedTarget(parsed.host, parsed.path, force_domain, listen_port)>>
    /\ (parsed.host = ExampleHost /\ parsed.path = ExamplePath /\ force_domain = <<>>)
         => /\ listen_port = 443 => redirects = <<ExampleTarget443>>
            /\ listen_port = 8443 => redirects = <<ExampleTarget8443>>

\* C19: the redirect target is https://{host}{port-suffix}{path}: host is
\* the force domain if set, else the Host value with any ":port" stripped,
\* else "localhost"; the suffix is omitted iff https_port = 443 and is
\* ":{https_port}" otherwise; the path is kept verbatim.
C19_RedirectTarget == redirects # <<>> => RedirectAsExpected

\* What does hold of the target: C19 for every Host value without a square
\* bracket.
C19_RedirectTargetNoBracket ==
    (redirects # <<>> /\ ~Contains(parsed.host, <<91>>)) => RedirectAsExpected

\* C20: no direct loop: when the listen port equals the TLS upstream port
\* serve_http_tls_multiplexer returns without binding or accepting, and no
\* relay ever dials the listen port.
C20_NoDirectLoop ==
    /\ listen_port = target_port =>
         /\ server \in {"start", "disabled", "refused"}
         /\ handler = "none" /\ client_sock = "none" /\ dials = <<>>
    /\ \A i \in 1..Len(dials) : dials[i] # listen_port

\* The multiplexer was enabled with equal ports and has returned.
C20_Witness ==
    /\ enabled
    /\ listen_port = target_port
    /\ server = "refused"

\* The answers verify_password gives for a wrong password, whatever the
\* credential that is set.
WrongPasswordAnswers ==
    {VerifyPasswordAnswer(password, stored) :
       password \in Passwords,
       stored \in {stored \in StoredAtStart \ {EmptyStr} :
                     \E q \in Passwords : ~VerifyPasswordAgainst(q, stored)}}

\* C23: verify_password on an empty stored credential reports the
\* authentication-disabled condition as an outcome distinct from an ordinary
\* failed verification: what it answers then is not an answer it gives for a
\* wrong password.
C23_VerifyTellsDisabled ==
    (last.op = "verify_password" /\ panel_password = EmptyStr)
    => last \notin {a \in WrongPasswordAnswers : a.ret = Bool(FALSE)}

\* What does hold: the two callers of verify_password look at the stored
\* credential themselves before they call it, and answer an empty one with
\* a detail of its own.
C23_CallersTellDisabled ==
    /\ (last.op = "authenticate" /\ initialized)
       => (last.detail = "Authentication is disabled: configure panel password in setup"
             <=> panel_password = EmptyStr)
    /\ (last.op = "change_password" /\ initialized)
       => (last.detail = "Authentication is disabled" <=> panel_password = EmptyStr)

\* C24: a failure of the plaintext-to-hash migration during an otherwise
\* successful login does not abort the login: the call returns a token that
\* is new and valid, the failure history of the address is cleared, and the
\* stored credential is left as it was.
C24_MigrationFailureKeepsLogin ==
    [][\A password \in Passwords, x \in ClientIps :
         (/\ initialized /\ panel_password # EmptyStr
          /\ ~IsBcryptHash(panel_password) /\ BcryptRaises(panel_password)
          /\ last'.op = "authenticate"
          /\ FailuresInWindow(x) < max_login_attempts
          /\ VerifyPassword(password)
          /\ authenticate(password, x))
         => /\ LoginOutcome(last') = "Token"
            /\ last'.ret \notin DOMAIN issued
            /\ \A token \in AnyToken : last'.ret = token => IsTokenValid(token)'
            /\ x \notin DOMAIN failed_attempts_by_ip'
            /\ recorded'[x] = <<>>
            /\ panel_password' = panel_password]_vars

\* C24 witness: a login whose migration failed (the stored credential is
\* still a plaintext bcrypt refuses to hash) has returned a token that is in
\* the store, next to a token issued before it.
C24_Witness ==
    /\ last.op = "authenticate"
    /\ LoginOutcome(last) = "Token"
    /\ last.ret \in DOMAIN tokens
    /\ ~IsBcryptHash(panel_password) /\ BcryptRaises(panel_password)
    /\ last.ip \notin DOMAIN failed_attempts_by_ip
    /\ \E token \in DOMAIN issued : token # last.ret

\* C25: a malformed stored hash is treated exactly like a wrong password:
\* verify_password returns False without raising, with the answer it gives
\* for a wrong password against a sound hash, and a login the throttle
\* allows ends InvalidCredential with one failure recorded for the address
\* and no token issued, for every candidate password.
C25_CorruptHashIsWrongPassword ==
    [][\A password \in Passwords, x \in ClientIps :
         /\ (/\ panel_password = CorruptHash
             /\ last'.op = "verify_password"
             /\ verify_password(password))
            => /\ last'.status = 200
               /\ last'.ret = Bool(FALSE)
               /\ last' \in {VerifyPasswordAnswer(q, stored) :
                               q \in Passwords,
                               stored \in {BcryptHashpw(Str("a", ""), salt) :
                                             salt \in Salts}}
         /\ (/\ initialized /\ panel_password = CorruptHash
             /\ last'.op = "authenticate"
             /\ FailuresInWindow(x) < max_login_attempts
             /\ authenticate(password, x))
            => /\ LoginOutcome(last') = "InvalidCredential"
               /\ last'.ret = 0
               /\ tokens' = tokens /\ issued' = issued
               /\ Len(AttemptsOf(failed_attempts_by_ip', x)) = FailuresInWindow(x) + 1
               /\ recorded'[x] = Append(recorded[x], now)
               /\ panel_password' = panel_password]_vars

\* C25 witness: against a malformed stored hash a login has just been
\* answered InvalidCredential, a failure is on record for its address and no
\* token was ever issued.
C25_Witness ==
    /\ initialized /\ panel_password = CorruptHash
    /\ last.op = "authenticate"
    /\ LoginOutcome(last) = "InvalidCredential"
    /\ Len(recorded[last.ip]) >= 1
    /\ issued = Restrict(<<>>, {})

\* What a client sees of an answer of the protected-request check.
Visible(answer) == [status |-> answer.status, detail |-> answer.detail]

\* The bearer tokens that are not valid now: never issued, or expired.
InvalidTokens == {creds \in (Creds \cup {ForgedToken}) \ {NoCreds} : ~IsTokenValid(creds)}

\* C26 as stated: on an initialized panel with a credential set, the outcome
\* of a protected call that presents an unknown or expired token is
\* indistinguishable from that of a call that presents no token at all.
C26_AsStated ==
    (/\ last.op = "get_current_user"
     /\ initialized /\ panel_password # EmptyStr
     /\ last.token \in InvalidTokens)
    => Visible(last) = Visible(GetCurrentUser(NoCreds))

\* C26 as amended: on an initialized panel with a credential set, a
\* protected call that presents an unknown token and one that presents an
\* expired token get the same answer, 401 "Invalid token"; a call that
\* presents no token gets the same status 401, and a detail of its own.
C26_NoTokenOracle ==
    (initialized /\ panel_password # EmptyStr)
    => /\ \A c1 \in InvalidTokens, c2 \in InvalidTokens :
            Visible(GetCurrentUser(c1)) = Visible(GetCurrentUser(c2))
       /\ \A creds \in InvalidTokens :
            GetCurrentUser(creds).status = GetCurrentUser(NoCreds).status
       /\ (last.op = "get_current_user" /\ last.token \in InvalidTokens)
            => Visible(last) = [status |-> 401, detail |-> "Invalid token"]
       /\ (last.op = "get_current_user" /\ last.token = NoCreds)
            => Visible(last) = [status |-> 401, detail |-> "Not authenticated"]

\* C26 witness: with a credential set, a protected call that presented an
\* expired token has just been answered, while a token never issued is
\* invalid too.
C26_Witness ==
    /\ initialized /\ panel_password # EmptyStr
    /\ last.op = "get_current_user"
    /\ last.token \in DOMAIN issued
    /\ now >= issued[last.token] + token_ttl_seconds
    /\ last.status = 401
    /\ ForgedToken \in InvalidTokens

\* C27: lockout applies before the password is looked at: while an address
\* is rate limited, a login from it with the correct password is answered
\* RateLimited, issues no token, leaves the failures of the address that lie
\* within the window on record and records no further one.
C27_LockoutBeforePassword ==
    [][\A password \in Passwords, x \in ClientIps :
         (/\ initialized /\ panel_password # EmptyStr
          /\ last'.op = "authenticate"
          /\ ~(FailuresInWindow(x) < max_login_attempts)
          /\ VerifyPassword(password)
          /\ authenticate(password, x))
         => /\ LoginOutcome(last') = "RateLimited"
            /\ last'.ret = 0
            /\ tokens' = tokens /\ issued' = issued
            /\ recorded' = recorded
            /\ Len(AttemptsOf(failed_attempts_by_ip', x)) = FailuresInWindow(x)
            /\ ~CanAttemptLogin(x)'
            /\ panel_password' = panel_password]_vars

\* C27 witness: a login that presented the correct password has just been
\* answered RateLimited, with max_login_attempts failures of its address on
\* record and no token in the store.
C27_Witness ==
    /\ last.op = "authenticate"
    /\ LoginOutcome(last) = "RateLimited"
    /\ VerifyPassword(last.password)
    /\ Len(AttemptsOf(failed_attempts_by_ip, last.ip)) = max_login_attempts
    /\ tokens = Restrict(<<>>, {})

\* C28 as stated: classification does not depend on how the client's bytes
\* are segmented: a connection whose stream begins with a TLS record header
\* is classified TLS and relayed, one whose stream begins with a method
\* token is classified HTTP and parsed, however few bytes the first read
\* returned.
C28_SegmentationIndependent ==
    class # "" =>
        /\ IsTlsRecordHeader(client_stream) => class = "tls"
        /\ StartsWithMethodToken(client_stream) => class = "http"

\* What does hold: the class is the one of the bytes the first read
\* returned; it differs from the class of the stream only when that read
\* returned fewer bytes than a TLS header or a method token has, and then
\* the connection is classified unknown and sent the default redirect.
C28_ClassOfFirstRead ==
    (class # "" /\ class # Sniffed(client_stream)) =>
        /\ class = "unknown"
        /\ class = Sniffed(initial)
        /\ Len(initial) < (IF IsTlsRecordHeader(client_stream) THEN 3 ELSE 8)
        /\ dials = <<>>
        /\ redirects # <<>> =>
             redirects = <<build_redirect_target(<<>>, Slash, force_domain, listen_port)>>

\* C29 as stated: a healthy relay has no overall or idle timeout: as long
\* as neither the client nor the upstream closes or errors, both copy loops
\* keep running and both sockets stay open, however long either side stays
\* silent.
C29_NoIdleTimeout ==
    (Relaying /\ client_state = "open" /\ upstream_state = "open") =>
        /\ ~RelayEnded
        /\ ~stop
        /\ client_sock = "open" /\ upstream_sock = "open"

\* What does hold: while neither peer has closed or reset, a relay ends
\* only by the timeout of the upstream socket, that is after the upstream
\* stayed silent for the 5 seconds create_connection was given; silence of
\* the client alone ends nothing.
C29_OnlyUpstreamSilenceEnds ==
    (Relaying /\ client_state = "open" /\ upstream_state = "open" /\ RelayEnded) =>
        /\ pipe["t2"].why = "timeout"
        /\ pipe["t1"].why \in {"", "stop", "shutdown"}

\* C30: upstream unreachable: when the dial to the internal TLS port fails,
\* or forwarding the peeked bytes to it fails, no copy loop is started,
\* nothing (no redirect, no byte of the upstream) is written to the client,
\* nothing more is dialled and the client socket is closed.
C30_UpstreamUnreachable ==
    /\ handler_exit \in {"dial_failed", "send_failed"} =>
         /\ class = "tls"
         /\ handler = "closed"
         /\ \A t \in {"t1", "t2"} : pipe[t] = NoPipe
         /\ ~stop
         /\ to_client = <<>> /\ redirects = <<>> /\ send_redirect_calls = 0
         /\ to_upstream = <<>>
         /\ dials = <<target_port>>
         /\ client_sock = "closed"
         /\ upstream_sock = (IF handler_exit = "dial_failed" THEN "none" ELSE "closed")
    /\ (handler = "closed" /\ class = "tls" /\ ~Relaying) =>
         handler_exit \in {"dial_failed", "send_failed"}

\* C30 witness: the dial has failed on a connection whose client had sent
\* its whole hello and is still there; the handler has returned.
C30_Witness ==
    /\ handler_exit = "dial_failed"
    /\ client_state = "open"
    /\ client_written = Len(client_stream)
    /\ client_sock = "closed"

Finished(t) == thread[t].pc = "done"

\* No token operation raises.
C21_NoError == \A t \in Threads : Finished(t) => thread[t].error = ""

\* The count revoke_all_tokens returns is the number of tokens it removed.
C21_CountMatches ==
    \A t \in Threads :
        (Finished(t) /\ thread[t].op = "revoke_all_tokens" /\ thread[t].error = "")
        => thread[t].ret = Cardinality(thread[t].took)

\* A token a revoke has removed is never in the store again.
C21_NoResurrection == \A token \in revoked : token \notin DOMAIN tokens

\* Every token handed out by create_token and not removed since by a revoke
\* or by its expiry is in the store.
C21_NoLostToken ==
    \A token \in DOMAIN issued :
        (token \notin revoked /\ now < issued[token] + token_ttl_seconds)
        => token \in DOMAIN tokens

\* C21: the token store operations are safe under concurrent invocation
\* from several threads: in every interleaving no call raises, the count
\* revoke_all_tokens returns is the number of tokens it removed, a token
\* revoked by one call is not put back by another, as in a sequential
\* ordering of the calls.
C21_ThreadSafe ==
    /\ C21_NoError
    /\ C21_CountMatches
    /\ C21_NoResurrection

\* What does hold: a call during which no other thread took a step does not
\* raise, and a revoke_all_tokens returns the number of tokens it removed;
\* and whatever the interleaving, the only error is the RuntimeError of the
\* iteration in _cleanup_expired_tokens.
C21_SafeWhenAlone ==
    \A t \in Threads :
        Finished(t) =>
            /\ thread[t].error \in {"", "RuntimeError"}
            /\ thread[t].alone =>
                 /\ thread[t].error = ""
                 /\ thread[t].op = "revoke_all_tokens"
                      => thread[t].ret = Cardinality(thread[t].took)

\* The header terminator of an HTTP prelude.
Terminator == CRLF \o CRLF

\* One more read of _read_http_prelude is made only while the terminator is
\* absent, the cap is not reached, the peer has not closed and the read does
\* not raise; it asks for no more than the cap leaves.
PreludeReadsWhileOpen ==
    (handler = "read_prelude" /\ data' # data)
        => /\ ~Contains(data, Terminator)
           /\ Len(data) < max_bytes
           /\ ~RecvRaises(client_state)
           /\ ~RecvEof(client_sock, client_state, client_written, client_read)
           /\ handler' = "read_prelude"
           /\ Len(data') <= max_bytes
           /\ StartsWith(client_stream, data')

\* While reading can go on (none of the four conditions holds) the handler
\* does not leave the loop.
PreludeLeavesWhenStopped ==
    (handler = "read_prelude" /\ handler' # "read_prelude")
        => \/ Contains(data, Terminator)
           \/ Len(data) >= max_bytes
           \/ RecvRaises(client_state)
           \/ RecvEof(client_sock, client_state, client_written, client_read)

\* The redirect of a finished HTTP connection was built from what the
\* prelude parser makes of the bytes accumulated (it reached the client
\* unless the client had reset the connection).
RedirectFromPrelude ==
    LET r == parse_http_host_and_path(data)
        target == build_redirect_target(r.host, r.path, force_domain, listen_port)
    IN  /\ ~r.raises
        /\ send_redirect_calls = 1
        /\ redirects \in {<<>>, <<target>>}
        /\ redirects = <<>> => client_state = "reset"

\* C31 as stated: bounded prelude.  The accumulated prelude never exceeds
\* the cap; a further read is made only while the terminator is absent, the
\* cap is not reached, the peer has not closed and no read has raised, and
\* the loop is left only when one of these stops it; and in each of these
\* cases the connection is sent a redirect built from the host and path
\* parsed from the bytes accumulated, or the defaults.
C31_BoundedPrelude ==
    /\ [](Len(data) <= max_bytes)
    /\ [][PreludeReadsWhileOpen /\ PreludeLeavesWhenStopped]_vars
    /\ []((class = "http" /\ handler = "closed") => RedirectFromPrelude)

\* What does hold of the prelude: the bound and the four stopping
\* conditions, and the redirect for every prelude but the one whose request
\* target makes urlsplit raise, whose handler ends with no redirect.
C31_BoundedButMalformedTarget ==
    /\ [](Len(data) <= max_bytes)
    /\ [][PreludeReadsWhileOpen /\ PreludeLeavesWhenStopped]_vars
    /\ []((class = "http" /\ handler = "closed")
            => IF handler_exit = "ValueError"
               THEN parse_http_host_and_path(data).raises /\ send_redirect_calls = 0
               ELSE RedirectFromPrelude)

\* A prelude that hit the cap without a terminator has been answered with a
\* redirect.
C31_CapReached ==
    /\ class = "http" /\ handler = "closed"
    /\ Len(data) = max_bytes /\ ~Contains(data, Terminator)
    /\ Len(redirects) = 1

\* The multiplexer under the default environment with a client that does
\* not open with a TLS record header.
PlainStreams == ClientStreams \ TlsStreams

NextPlain ==
    \/ serve_http_tls_multiplexer
    \/ \E stream \in PlainStreams : accept(stream)
    \/ client_send
    \/ client_close
    \/ handle_client
    \/ read_http_prelude
    \/ send_redirect

SpecPlain == InitRelay /\ [][NextPlain]_vars

\* _read_http_prelude can take its next step: its loop is over (terminator
\* or cap), or conn.recv returns (bytes have arrived, the peer has closed,
\* or the connection is reset).  Otherwise it is blocked in conn.recv.
ReadHttpPreludeReady ==
    /\ handler = "read_prelude"
    /\ \/ Contains(data, CRLF \o CRLF)
       \/ Len(data) >= max_bytes
       \/ RecvRaises(client_state)
       \/ RecvEof(client_sock, client_state, client_written, client_read)
       \/ RecvSizes(Min(prelude_chunk, max_bytes - Len(data)),
                    client_written, client_read) # {}

\* The same, the handler thread taking its next step whenever it can.  The
\* client is under no obligation: it may send, close, or stay silent for
\* ever, and no timer runs on the accepted socket (no settimeout in
\* _handle_client or _read_http_prelude).
\* Weak fairness of read_http_prelude is written out, with the condition
\* under which the step can be taken in place of ENABLED.
SpecPlainFair ==
    /\ SpecPlain
    /\ WF_vars(handle_client)
    /\ WF_vars(send_redirect)
    /\ ([]<>(~ReadHttpPreludeReady) \/ []<><<read_http_prelude>>_vars)

\* C32 as stated: bounded resource holding for plaintext clients.  Every
\* connection classified HTTP is eventually sent its redirect and closed,
\* whatever the client does after its method token (trickle, silence, no
\* terminator, no close), and an accepted connection whose first byte never
\* comes is eventually released.
C32_PlaintextReleased ==
    /\ (class = "http") ~> (handler = "closed" /\ client_sock = "closed")
    /\ (handler = "recv_initial") ~> (handler = "closed" /\ client_sock = "closed")

\* What does hold: once the client has closed or reset the connection, or
\* the prelude holds its terminator or has reached the cap, the connection
\* is released, and so is one whose redirect is due; what holds a handler is
\* a client that stays connected and silent.
C32_HeldOnlyBySilentClient ==
    /\ (handler \in {"recv_initial", "read_prelude"} /\ client_state # "open")
         ~> (handler = "closed" /\ client_sock = "closed")
    /\ (handler = "read_prelude" /\ (Contains(data, Terminator) \/ Len(data) >= max_bytes))
         ~> (handler = "closed" /\ client_sock = "closed")
    /\ (handler = "send_redirect") ~> (handler = "closed" /\ client_sock = "closed")

\* A client that went silent after its method token, no terminator sent,
\* holds its handler in _read_http_prelude.
C32_HeldInPrelude ==
    /\ handler = "read_prelude" /\ ~ReadHttpPreludeReady
    /\ client_state = "open"
    /\ client_written = Len(client_stream) /\ Len(data) = client_written

\* ------------------------------------------- the prelude parser alone
\* Request lines handed to the prelude parser.
RequestLines ==
    \* GET
    { <<71, 69, 84>>
    \* GET /a?b=1 HTTP/1.1
    , <<71, 69, 84, 32, 47, 97, 63, 98, 61, 49, 32, 72, 84, 84, 80, 47, 49,
        46, 49>>
    \* GET http://e.com/p?q
    , <<71, 69, 84, 32, 104, 116, 116, 112, 58, 47, 47, 101, 46, 99, 111,
        109, 47, 112, 63, 113>>
    \* POST HTTPS://E.com A
    , <<80, 79, 83, 84, 32, 72, 84, 84, 80, 83, 58, 47, 47, 69, 46, 99,
        111, 109, 32, 65>>
    \* GET a HTTP/1.1
    , <<71, 69, 84, 32, 97, 32, 72, 84, 84, 80, 47, 49, 46, 49>>
    \* GET //e.com/x
    , <<71, 69, 84, 32, 47, 47, 101, 46, 99, 111, 109, 47, 120>>
    \* GET http:/p
    , <<71, 69, 84, 32, 104, 116, 116, 112, 58, 47, 112>>
    \* OPTIONS * HTTP/1.1
    , <<79, 80, 84, 73, 79, 78, 83, 32, 42, 32, 72, 84, 84, 80, 47, 49, 46,
        49>>
    \* GET http://[x/
    , <<71, 69, 84, 32, 104, 116, 116, 112, 58, 47, 47, 91, 120, 47>>
    }

\* What follows the request line in the bytes accumulated.
HeaderBlocks ==
    \* nothing
    { <<>>
    \* CRLF  CRLF
    , <<13, 10, 13, 10>>
    \* CRLF Host: f.com CRLF  CRLF
    , <<13, 10, 72, 111, 115, 116, 58, 32, 102, 46, 99, 111, 109, 13, 10,
        13, 10>>
    \* CRLF hOsT : g CRLF Host: h CRLF  CRLF
    , <<13, 10, 104, 79, 115, 84, 32, 58, 32, 103, 13, 10, 72, 111, 115,
        116, 58, 32, 104, 13, 10, 13, 10>>
    \* CRLF X: y CRLF  CRLF Host: late CRLF
    , <<13, 10, 88, 58, 32, 121, 13, 10, 13, 10, 72, 111, 115, 116, 58, 32,
        108, 97, 116, 101, 13, 10>>
    \* CRLF nc CRLF Host:f.com:80 CRLF  CRLF
    , <<13, 10, 110, 99, 13, 10, 72, 111, 115, 116, 58, 102, 46, 99, 111,
        109, 58, 56, 48, 13, 10, 13, 10>>
    \* CRLF Host: f.c
    , <<13, 10, 72, 111, 115, 116, 58, 32, 102, 46, 99>>
    \* CRLF XHost:z CRLF Host: CRLF Host:k CRLF  CRLF
    , <<13, 10, 88, 72, 111, 115, 116, 58, 122, 13, 10, 72, 111, 115, 116,
        58, 13, 10, 72, 111, 115, 116, 58, 107, 13, 10, 13, 10>>
    }

\* The bytes _read_http_prelude may hand to the parser.
PreludeInputs == {line \o block : line \in RequestLines, block \in HeaderBlocks}

\* The parser has not been applied yet.
NotParsed == [host |-> <<>>, path |-> <<>>]

InitParser ==
    /\ InitPanel /\ ~initialized /\ bcrypt_truncates
    /\ server = "listening"
    /\ enabled = TRUE
    /\ listen_port = 443
    /\ target_port = 8000
    /\ force_domain = <<>>
    /\ handler = "read_prelude"
    /\ handler_exit = ""
    /\ class = "http"
    /\ client_stream \in PreludeInputs
    /\ client_written = Len(client_stream)
    /\ client_state = "open"
    /\ client_read = client_written
    /\ client_sock = "open"
    /\ initial = <<>>
    /\ data = client_stream
    /\ parsed = NotParsed
    /\ upstream_sock = "none"
    /\ upstream_written = 0
    /\ upstream_state = "open"
    /\ upstream_read = 0
    /\ to_upstream = <<>>
    /\ to_client = <<>>
    /\ redirects = <<>>
    /\ send_redirect_calls = 0
    /\ dials = <<>>
    /\ stop = FALSE
    /\ pipe = [t \in {"t1", "t2"} |-> NoPipe]
    /\ pending = 0 /\ others = 0

\* host, path = _parse_http_host_and_path(raw), as _handle_client calls it
\* on what _read_http_prelude returned.
parse_http_prelude ==
    /\ handler = "read_prelude"
    /\ LeavePrelude(data)
    /\ UNCHANGED <<auth_vars, accept_vars, conf_vars, class, initial, data, client_peer,
                   upstream_peer, read_vars, upstream_sock, out_vars, relay_vars>>

NextParser == parse_http_prelude \/ send_redirect

SpecParser == InitParser /\ [][NextParser]_vars

\* The request-target of a prelude: the second word of its first line, the
\* empty string when there is none.
RequestTarget(raw) ==
    LET words == SplitWhitespace(Split(raw, CRLF)[1])
    IN  IF Len(words) >= 2 THEN words[2] ELSE <<>>

\* "://"
SchemeMark == <<58, 47, 47>>

\* Where the authority of an absolute URL ends: before the first "/" or "?"
\* after the scheme mark.
AuthorityEnd(url) ==
    LET from == Find(url, SchemeMark, 1) + 3
        ends == {i \in from..Len(url) : url[i] \in {47, 63}}
    IN  IF ends = {} THEN Len(url) + 1 ELSE CHOOSE i \in ends : \A j \in ends : i <= j

UrlAuthority(url) == SubSeq(url, Find(url, SchemeMark, 1) + 3, AuthorityEnd(url) - 1)

\* A target is an absolute URL: a scheme, "://", and an authority.
IsAbsoluteUrl(target) ==
    LET i == Find(target, SchemeMark, 1)
    IN  /\ i > 1
        /\ target[1] \in (65..90) \cup (97..122)
        /\ \A k \in 1..(i - 1) : target[k] \in scheme_chars
        /\ UrlAuthority(target) # <<>>

\* Path and query of an absolute URL, "/" standing for an empty path.
UrlPathAndQuery(url) ==
    LET rest == From(url, AuthorityEnd(url))
    IN  IF rest = <<>> \/ rest[1] # 47 THEN Slash \o rest ELSE rest

\* The values of the Host headers of a prelude, in order: the lines after
\* the request line and before the first empty line whose name, compared
\* without case, is "host".
HostValues(raw) ==
    LET lines == Split(raw, CRLF)
        blanks == {k \in 2..Len(lines) : lines[k] = <<>>}
        end == IF blanks = {} THEN Len(lines) + 1
               ELSE CHOOSE k \in blanks : \A j \in blanks : k <= j
        IsHost(k) == /\ Contains(lines[k], Colon)
                     /\ Lower(Strip(SplitOnce(lines[k], Colon)[1])) = <<104, 111, 115, 116>>
        hosts == {k \in 2..(end - 1) : IsHost(k)}
        RECURSIVE InOrder(_)
        InOrder(k) == IF k >= end THEN <<>>
                      ELSE (IF k \in hosts
                            THEN <<Strip(SplitOnce(lines[k], Colon)[2])>> ELSE <<>>)
                           \o InOrder(k + 1)
    IN  InOrder(2)

\* The path of a target that is not an absolute URL.
OriginPath(target) ==
    IF target = <<>> THEN Slash
    ELSE IF target[1] = 47 THEN target ELSE Slash \o target

\* C33 as stated: host and path resolution in the prelude parser.  For an
\* absolute-URL target host and path (with query) are those of the URL and a
\* Host header does not change them; otherwise the host is the value of the
\* first Host header before the first blank line (none: empty) and the path
\* is the target; the path starts with "/" and is "/" without a target.
C33_HostPathResolution ==
    parsed # NotParsed =>
        LET target == RequestTarget(data)
            hosts == HostValues(data)
        IN  /\ parsed.path[1] = 47
            /\ IF IsAbsoluteUrl(target)
               THEN /\ parsed.host = UrlAuthority(target)
                    /\ parsed.path = UrlPathAndQuery(target)
               ELSE /\ parsed.host = (IF hosts = <<>> THEN <<>> ELSE hosts[1])
                    /\ parsed.path = OriginPath(target)

\* What does hold: the path as the claim has it, and the host of the first
\* Host header before the first blank line whenever there is one, also for
\* an absolute-URL target, whose authority is the host only when the
\* prelude has no Host header.
C33_HostHeaderOverridesUrl ==
    parsed # NotParsed =>
        LET target == RequestTarget(data)
            hosts == HostValues(data)
        IN  /\ parsed.path[1] = 47
            /\ parsed.path = (IF IsAbsoluteUrl(target) THEN UrlPathAndQuery(target)
                              ELSE OriginPath(target))
            /\ parsed.host = (IF hosts # <<>> THEN hosts[1]
                              ELSE IF IsAbsoluteUrl(target) THEN UrlAuthority(target)
                              ELSE <<>>)

\* The key under which the throttle files a client: its address, or the
\* sentinel when it has none.
ThrottleKey(client) == IF client = NoClient THEN UnknownIp ELSE client

\* C34: the throttle is keyed by the address string alone.  A login of one
\* client (check, prune, record, clear) leaves the deque, the failure
\* history and the answer of the allow check of every other key as they
\* were; the clients without an address all go under the key "unknown":
\* their wrong passwords are recorded there, and once max_login_attempts of
\* them lie within the window every such client is answered RateLimited.
C34_KeyedByIp ==
    [][\A password \in TypedPasswords, client \in Clients :
         (/\ last'.op = "authenticate" /\ last'.password = password
          /\ login(password, client))
         => /\ \A y \in ClientIps \ {ThrottleKey(client)} :
                 /\ (y \in DOMAIN failed_attempts_by_ip')
                      <=> (y \in DOMAIN failed_attempts_by_ip)
                 /\ AttemptsOf(failed_attempts_by_ip', y)
                      = AttemptsOf(failed_attempts_by_ip, y)
                 /\ recorded'[y] = recorded[y]
                 /\ CanAttemptLogin(y)' = CanAttemptLogin(y)
            /\ (client = NoClient /\ initialized /\ panel_password # EmptyStr)
                 => /\ last'.ip = UnknownIp
                    /\ FailuresInWindow(UnknownIp) >= max_login_attempts
                         => LoginOutcome(last') = "RateLimited"
                    /\ LoginOutcome(last') = "InvalidCredential"
                         => recorded'[UnknownIp] = Append(recorded[UnknownIp], now)]_vars

\* C34 witness: a client without an address has just been answered
\* RateLimited for the failures filed under "unknown", while the client
\* with an address, one failure on record, is still allowed.
C34_Witness ==
    /\ last.op = "authenticate" /\ last.ip = UnknownIp
    /\ LoginOutcome(last) = "RateLimited"
    /\ FailuresInWindow(UnknownIp) = max_login_attempts
    /\ \E y \in Hosts : Len(recorded[y]) = 1 /\ CanAttemptLogin(y)

\* The throttle map holds an entry for ip with no failure in it.
EmptyEntry(attempts_by_ip, ip) ==
    ip \in DOMAIN attempts_by_ip /\ attempts_by_ip[ip] = <<>>

\* C35 as stated: the entry of an address is made by its first failed
\* attempt and not before.  A login answered NotInitialized or AuthDisabled
\* leaves the map as it was, a successful login leaves no entry for its
\* address, and after any sequence of logins every entry of the map holds at
\* least one failure timestamp.
C35_EntryOnlyAfterFailure ==
    /\ [](\A ip \in ClientIps : ~EmptyEntry(failed_attempts_by_ip, ip))
    /\ [][\A client \in Clients :
            (last'.op = "authenticate" /\ last'.ip = ThrottleKey(client)
             /\ login(last'.password, client))
            => /\ LoginOutcome(last') \in {"NotInitialized", "AuthDisabled"}
                    => failed_attempts_by_ip' = failed_attempts_by_ip
               /\ LoginOutcome(last') = "Token"
                    => ThrottleKey(client) \notin DOMAIN failed_attempts_by_ip']_vars

\* What does hold: the two frame clauses, and an entry without a failure
\* arises in one way only, by a login of that address that died of the
\* TypeError of verify_password after the allow check had made (or emptied)
\* the entry.
C35_EmptyEntryOnlyByTypeError ==
    [][/\ \A client \in Clients :
            (last'.op = "authenticate" /\ last'.ip = ThrottleKey(client)
             /\ login(last'.password, client))
            => /\ LoginOutcome(last') \in {"NotInitialized", "AuthDisabled"}
                    => failed_attempts_by_ip' = failed_attempts_by_ip
               /\ LoginOutcome(last') = "Token"
                    => ThrottleKey(client) \notin DOMAIN failed_attempts_by_ip'
       /\ \A ip \in ClientIps :
            (EmptyEntry(failed_attempts_by_ip', ip) /\ ~EmptyEntry(failed_attempts_by_ip, ip))
            => /\ last'.op = "authenticate" /\ last'.ip = ip
               /\ last'.status = 500 /\ last'.detail = "TypeError"
               /\ ~IsAscii(last'.password) /\ ~IsBcryptHash(panel_password)]_vars

\* C36: a failed login changes nothing but the throttle.  An authenticate
\* call that ends NotInitialized, AuthDisabled, RateLimited or
\* InvalidCredential returns no token, leaves the token store, the validity
\* of every token and the stored credential as they were, and leaves the
\* deques of all other addresses alone; for InvalidCredential the deque of
\* the caller is what the allow check kept of it plus one timestamp, the
\* time of the call, and for the other three nothing is appended.
C36_FailedLoginFrame ==
    [][\A x \in ClientIps :
         (/\ last'.op = "authenticate" /\ last'.ip = x
          /\ LoginOutcome(last') \in {"NotInitialized", "AuthDisabled", "RateLimited",
                                      "InvalidCredential"}
          /\ authenticate(last'.password, x))
         => LET kept == PruneAttempts(AttemptsOf(failed_attempts_by_ip, x), now)
                after == AttemptsOf(failed_attempts_by_ip', x)
            IN  /\ last'.ret = 0
                /\ tokens' = tokens /\ issued' = issued
                /\ \A token \in AnyToken : IsTokenValid(token)' = IsTokenValid(token)
                /\ panel_password' = panel_password /\ initialized' = initialized
                /\ \A y \in ClientIps \ {x} :
                     AttemptsOf(failed_attempts_by_ip', y) = AttemptsOf(failed_attempts_by_ip, y)
                /\ LoginOutcome(last') = "InvalidCredential" => after = Append(kept, now)
                /\ LoginOutcome(last') = "RateLimited" => after = kept
                /\ LoginOutcome(last') \in {"NotInitialized", "AuthDisabled"}
                     => failed_attempts_by_ip' = failed_attempts_by_ip]_vars

\* C36 witness: a login has just been answered InvalidCredential while a
\* token issued earlier is in the store and valid, and the deque of the
\* caller ends with the time of the call.
C36_Witness ==
    /\ last.op = "authenticate"
    /\ LoginOutcome(last) = "InvalidCredential"
    /\ \E token \in DOMAIN tokens : IsTokenValid(token)
    /\ Len(AttemptsOf(failed_attempts_by_ip, last.ip)) = 2
    /\ AttemptsOf(failed_attempts_by_ip, last.ip)[2] = now

\* C37: in a sequential run of logins the deque of an address never holds
\* more than max_login_attempts timestamps; a login answered RateLimited
\* appends nothing, so the oldest retained failure stays what it was and
\* the lockout is not extended; and, on an initialized panel with
\* authentication enabled, a login of x is answered RateLimited exactly
\* when the deque of x is full and its oldest failure is at most the window
\* old: as soon as the oldest failure is older than the window the address
\* is allowed again.
C37_LockoutBounded ==
    /\ [](\A ip \in ClientIps :
            Len(AttemptsOf(failed_attempts_by_ip, ip)) <= max_login_attempts)
    /\ [][\A x \in ClientIps :
            (/\ last'.op = "authenticate" /\ last'.ip = x
             /\ LoginOutcome(last') \notin {"NotInitialized", "AuthDisabled"}
             /\ authenticate(last'.password, x))
            => LET before == AttemptsOf(failed_attempts_by_ip, x)
                   after == AttemptsOf(failed_attempts_by_ip', x)
               IN  /\ LoginOutcome(last') = "RateLimited"
                        <=> /\ Len(before) >= max_login_attempts
                            /\ now - Head(before) <= attempt_window_seconds
                   /\ LoginOutcome(last') = "RateLimited"
                        => after = before /\ recorded' = recorded]_vars

\* C37 witness: an address whose deque is full has just been refused at the
\* last moment of its lockout (its oldest failure is exactly the window
\* old), and the deque still holds the recorded failures and nothing else.
C37_Witness ==
    /\ last.op = "authenticate"
    /\ LoginOutcome(last) = "RateLimited"
    /\ Len(AttemptsOf(failed_attempts_by_ip, last.ip)) = max_login_attempts
    /\ now - Head(AttemptsOf(failed_attempts_by_ip, last.ip)) = attempt_window_seconds
    /\ recorded[last.ip] = AttemptsOf(failed_attempts_by_ip, last.ip)

\* ------------------------- logins and a password change under threads
\* AuthHandler.authenticate and POST /password called from several threads
\* at once.  Neither holds a lock of its own; ConfigManager takes its RLock
\* inside each get and each set only.  A thread can be switched out wherever
\* the interpreter lock is released: in bcrypt.checkpw and bcrypt.hashpw and
\* in the database access of every config read and write.  The steps below
\* end at these places; the two config reads and the allow check with which
\* authenticate begins are taken as one step, as nothing another thread
\* does here changes what the reads return.
LoginIp == "10.0.0.1"

\* The passwords of the racing calls: the two a data directory may hold at
\* start, and the one a change sets.
NewPassword == Str("c", "")

LoginPasswords == {Str("a", ""), Str("b", "x"), NewPassword}

\* What a thread of these calls keeps besides the locals of IdleThread: the
\* arguments of its call, the hash it has computed, the status it answered,
\* and, over all its calls, the password each token it got was given for.
NoTokens == Restrict(<<>>, {})

Got(t) == IF "got" \in DOMAIN thread[t] THEN thread[t].got ELSE NoTokens

LoginLocals(t) ==
    [password |-> EmptyStr, new_password |-> EmptyStr, ip |-> "", hashed |-> EmptyStr,
     status |-> 0, got |-> Got(t)]

\* Thread t begins op with these arguments and stands at pc, or has
\* answered status at once.
Begun(t, op, password, new_password, ip, creds, pc, status) ==
    [IdleThread EXCEPT !.op = op, !.arg = creds, !.pc = pc,
                       !.calls = thread[t].calls + 1,
                       !.alone = \A u \in Threads \ {t} : ~Running(u)]
        @@ [LoginLocals(t) EXCEPT !.password = password, !.new_password = new_password,
                                  !.ip = ip, !.status = status]

\* The call of thread t goes on at pc.
GoesOn(t, pc) == [thread[t] EXCEPT !.pc = pc]

\* The call of thread t answers status.
Answers(t, status) == [thread[t] EXCEPT !.pc = "done", !.status = status]

\* hash_password applied to the stored value as it is read: the hash of a
\* plaintext is the hash of that password, the hash of the sixty characters
\* of a bcrypt hash is the hash of no password anyone holds.
HashOfStored(stored, salt) ==
    IF IsBcryptHash(stored)
    THEN [fmt |-> "bcrypt", head |-> "$2b$", tail |-> "", salt |-> salt]
    ELSE HashPassword(stored, salt)

\* authenticate up to the verification: the config checks and
\* _can_attempt_login.
login_call(t, password, client_ip) ==
    /\ ~Running(t)
    /\ thread[t].calls < MaxCalls
    /\ \E exit \in {IF ~initialized THEN "not_initialized"
                    ELSE IF panel_password = EmptyStr THEN "auth_disabled"
                    ELSE IF ~CanAttemptLogin(client_ip) THEN "too_many_attempts"
                    ELSE "verify"} :
         /\ failed_attempts_by_ip' =
              IF exit \in {"not_initialized", "auth_disabled"} THEN failed_attempts_by_ip
              ELSE CanAttemptLoginMap(client_ip)
         /\ Stepped(t, Begun(t, "authenticate", password, EmptyStr, client_ip, NoCreds,
                             IF exit = "verify" THEN "verify" ELSE "done",
                             IF exit = "verify" THEN 0
                             ELSE AuthenticateAnswer(exit, client_ip, 0).status))
    /\ UNCHANGED <<mux_vars, now, tokens, initialized, socks5_port, panel_port, panel_password, bcrypt_truncates,
                   issued, revoked, recorded, last>>

\* verify_password: the stored value is read and the password compared with
\* it.  A wrong password has now been tried; the history notes it.
login_verify(t) ==
    /\ thread[t].pc = "verify"
    /\ \E raises \in {VerifyPasswordTypeError(thread[t].password, panel_password)} :
       \E ok \in {VerifyPasswordAgainst(thread[t].password, panel_password)} :
         /\ Stepped(t, IF raises THEN Answers(t, 500)
                       ELSE IF ok THEN GoesOn(t, "migrate_test")
                       ELSE GoesOn(t, "record"))
         /\ recorded' = IF ~raises /\ ~ok
                        THEN [recorded EXCEPT ![thread[t].ip] = Append(@, now)]
                        ELSE recorded
    /\ UNCHANGED <<mux_vars, now, tokens, failed_attempts_by_ip, initialized, socks5_port, panel_port, panel_password,
                   bcrypt_truncates, issued, revoked, last>>

\* _record_failed_attempt, and the 401.
login_record(t) ==
    /\ thread[t].pc = "record"
    /\ failed_attempts_by_ip' = RecordFailedAttemptMap(failed_attempts_by_ip, thread[t].ip)
    /\ Stepped(t, Answers(t, 401))
    /\ UNCHANGED <<mux_vars, now, tokens, initialized, socks5_port, panel_port, panel_password, bcrypt_truncates,
                   issued, revoked, recorded, last>>

\* `if not self._is_bcrypt_hash(config.panel_password)`
login_migrate_test(t) ==
    /\ thread[t].pc = "migrate_test"
    /\ Stepped(t, GoesOn(t, IF IsBcryptHash(panel_password) THEN "finish"
                           ELSE "migrate_hash"))
    /\ UNCHANGED <<mux_vars, now, tokens, failed_attempts_by_ip, initialized, socks5_port, panel_port, panel_password,
                   bcrypt_truncates, issued, revoked, recorded, last>>

\* self.hash_password(config.panel_password): the stored value is read once
\* more and hashed; what bcrypt raises is caught.
login_migrate_hash(t) ==
    /\ thread[t].pc = "migrate_hash"
    /\ \E salt \in Salts :
         Stepped(t, IF ~IsBcryptHash(panel_password) /\ BcryptRaises(panel_password)
                    THEN GoesOn(t, "finish")
                    ELSE [GoesOn(t, "migrate_set")
                            EXCEPT !.hashed = HashOfStored(panel_password, salt)])
    /\ UNCHANGED <<mux_vars, now, tokens, failed_attempts_by_ip, initialized, socks5_port, panel_port, panel_password,
                   bcrypt_truncates, issued, revoked, recorded, last>>

\* config.set("panel_password", ...) of the migration.
login_migrate_set(t) ==
    /\ thread[t].pc = "migrate_set"
    /\ panel_password' = thread[t].hashed
    /\ Stepped(t, GoesOn(t, "finish"))
    /\ UNCHANGED <<mux_vars, now, tokens, failed_attempts_by_ip, initialized, socks5_port, panel_port,
                   bcrypt_truncates, issued, revoked, recorded, last>>

\* The history of the address is dropped and the token created.
login_finish(t) ==
    /\ thread[t].pc = "finish"
    /\ NextToken <= MaxTokens
    /\ failed_attempts_by_ip' = ClearAttemptsMap(failed_attempts_by_ip, thread[t].ip)
    /\ recorded' = [recorded EXCEPT ![thread[t].ip] = <<>>]
    /\ tokens' = CreateTokenStore(NextToken)
    /\ issued' = (NextToken :> now) @@ issued
    /\ Stepped(t, [Answers(t, 200) EXCEPT !.ret = NextToken,
                                          !.got = (NextToken :> thread[t].password) @@ @])
    /\ UNCHANGED <<mux_vars, now, initialized, socks5_port, panel_port, panel_password, bcrypt_truncates, revoked,
                   last>>

\* POST /password up to the verification: the get_current_user dependency
\* and the test that a credential is configured.
change_password_call(t, current_password, new_password, creds) ==
    /\ ~Running(t)
    /\ thread[t].calls < MaxCalls
    /\ \E user \in {GetCurrentUser(creds)} :
         /\ tokens' = user.tokens
         /\ Stepped(t, Begun(t, "change_password", current_password, new_password, "", creds,
                             IF user.status = 200 /\ panel_password # EmptyStr
                             THEN "cp_verify" ELSE "done",
                             IF user.status # 200 THEN user.status
                             ELSE IF panel_password = EmptyStr THEN 400 ELSE 0))
    /\ UNCHANGED <<mux_vars, now, failed_attempts_by_ip, initialized, socks5_port, panel_port, panel_password,
                   bcrypt_truncates, issued, revoked, recorded, last>>

\* verify_password(current_password), the test that the new password
\* differs, and hash_password(new_password).
change_password_verify(t) ==
    /\ thread[t].pc = "cp_verify"
    /\ \E salt \in Salts :
         Stepped(t,
           IF VerifyPasswordTypeError(thread[t].password, panel_password)
           THEN Answers(t, 500)
           ELSE IF ~VerifyPasswordAgainst(thread[t].password, panel_password)
           THEN Answers(t, 400)
           ELSE IF thread[t].password = thread[t].new_password THEN Answers(t, 400)
           ELSE IF BcryptRaises(thread[t].new_password) THEN Answers(t, 500)
           ELSE [GoesOn(t, "cp_set")
                   EXCEPT !.hashed = HashPassword(thread[t].new_password, salt)])
    /\ UNCHANGED <<mux_vars, now, tokens, failed_attempts_by_ip, initialized, socks5_port, panel_port, panel_password,
                   bcrypt_truncates, issued, revoked, recorded, last>>

\* config_mgr.set("panel_password", ...) of the change.
change_password_set(t) ==
    /\ thread[t].pc = "cp_set"
    /\ panel_password' = thread[t].hashed
    /\ Stepped(t, GoesOn(t, "cp_revoke"))
    /\ UNCHANGED <<mux_vars, now, tokens, failed_attempts_by_ip, initialized, socks5_port, panel_port,
                   bcrypt_truncates, issued, revoked, recorded, last>>

\* revoke_all_tokens(keep_token=current_token), and the answer.
change_password_revoke(t) ==
    /\ thread[t].pc = "cp_revoke"
    /\ tokens' = RevokeAllTokens(thread[t].arg).tokens
    /\ revoked' = revoked \cup RevokedByAll(thread[t].arg)
    /\ Stepped(t, Answers(t, 200))
    /\ UNCHANGED <<mux_vars, now, failed_attempts_by_ip, initialized, socks5_port, panel_port, panel_password,
                   bcrypt_truncates, issued, recorded, last>>

\* The threads log in from one address and change the password.
NextLoginThreads ==
    \/ Tick
    \/ \E t \in Threads, password \in LoginPasswords : login_call(t, password, LoginIp)
    \/ \E t \in Threads : login_verify(t)
    \/ \E t \in Threads : login_record(t)
    \/ \E t \in Threads : login_migrate_test(t)
    \/ \E t \in Threads : login_migrate_hash(t)
    \/ \E t \in Threads : login_migrate_set(t)
    \/ \E t \in Threads : login_finish(t)
    \/ \E t \in Threads, current_password \in LoginPasswords \ {NewPassword},
          creds \in TokenIds :
         change_password_call(t, current_password, NewPassword, creds)
    \/ \E t \in Threads : change_password_verify(t)
    \/ \E t \in Threads : change_password_set(t)
    \/ \E t \in Threads : change_password_revoke(t)

SpecLoginThreads == InitLogin /\ [][NextLoginThreads]_vars

\* The wrong passwords tried from ip that are at most the window old.
TriedInWindow(ip) ==
    Cardinality({i \in 1..Len(recorded[ip]) :
                   now - recorded[ip][i] <= attempt_window_seconds})

\* C38: the brute-force limit under concurrent logins.  Whatever the
\* interleaving of the logins of one address, at no time have more than
\* max_login_attempts wrong passwords been tried from it within the
\* trailing window.
C38_LimitUnderThreads ==
    \A ip \in ClientIps : TriedInWindow(ip) <= max_login_attempts

\* C38, what holds: every login still under way may add one guess to a
\* full budget, and no more; the excess is at most the number of threads
\* less one.
C38_ExcessBoundedByThreads ==
    \A ip \in ClientIps :
        TriedInWindow(ip) <= max_login_attempts + Cardinality(Threads) - 1

\* C39: a password change forces re-authentication even against a login in
\* flight.  Once a login that was answered a token and a password change
\* that succeeded have both completed, (a) the new password verifies
\* against the stored credential, and (b) every valid token was either
\* presented to the change or given for the new password.
C39_NewPasswordVerifies ==
    \A B \in Threads :
        (/\ \A u \in Threads : ~Running(u)
         /\ thread[B].op = "change_password" /\ thread[B].status = 200)
        => VerifyPasswordAgainst(thread[B].new_password, panel_password)

C39_OnlyKeptTokenSurvives ==
    \A B \in Threads :
        (/\ \A u \in Threads : ~Running(u)
         /\ thread[B].op = "change_password" /\ thread[B].status = 200)
        => \A token \in TokenIds :
             IsTokenValid(token)
             => \/ token = thread[B].arg
                \/ \E u \in Threads : /\ token \in DOMAIN Got(u)
                                      /\ Got(u)[token] = thread[B].new_password

C39_ChangeForcesReauth == C39_NewPasswordVerifies /\ C39_OnlyKeptTokenSurvives

\* C39, what holds: a change during which no other thread took a step
\* and during which no other call was under way leaves the new password
\* verifying, and the only tokens valid after it are the one presented to
\* it and those given for the new password.
C39_ChangeAloneIsSound ==
    \A B \in Threads :
        (/\ \A u \in Threads : ~Running(u)
         /\ thread[B].op = "change_password" /\ thread[B].status = 200
         /\ thread[B].alone)
        => /\ VerifyPasswordAgainst(thread[B].new_password, panel_password)
           /\ \A token \in TokenIds :
                IsTokenValid(token)
                => \/ token = thread[B].arg
                   \/ \E u \in Threads : /\ token \in DOMAIN Got(u)
                                         /\ Got(u)[token] = thread[B].new_password

\* ------------------------------------------------------ the setup route
\* The ports a setup request may carry: left out, or other than the default.
SetupSocks5Ports == {NoPort, 1081}

SetupPanelPorts == {NoPort, 8001}

\* The passwords of the setup requests and of the calls that follow them:
\* a short one and one of more than 72 bytes.
SetupPasswords == {Str("a", ""), Str("b", "x")}

\* The routes that write the settings.  The clock stands still: none of
\* them looks at it but to stamp a token or a failure.
NextSetup ==
    \/ \E password \in SetupPasswords, client \in Hosts : login(password, client)
    \/ \E current_password \in SetupPasswords, new_password \in SetupPasswords,
          creds \in Creds :
         change_password(current_password, new_password, creds)
    \/ \E new_password \in SetupPasswords, req_socks5_port \in SetupSocks5Ports,
          req_panel_port \in SetupPanelPorts :
         initialize_panel(new_password, req_socks5_port, req_panel_port)

SpecSetup == Init /\ [][NextSetup]_vars

\* C40: initialization is one-way and happens once.  POST /initialize on an
\* initialized panel is answered 409 and leaves the credential, the two
\* ports and the flag as they were; one that is answered 200 found the
\* panel uninitialized, stores a bcrypt hash the given password verifies
\* against, stores the requested ports (the defaults for those left out)
\* and sets the flag; no step of any route takes the flag back, and none
\* ends authentication once it is enabled.
C40_InitializeOnce ==
    /\ [][(/\ last'.op = "initialize_panel"
           /\ \E req_socks5_port \in SetupSocks5Ports, req_panel_port \in SetupPanelPorts :
                initialize_panel(last'.password, req_socks5_port, req_panel_port))
          => /\ initialized
                  => /\ last'.status = 409
                     /\ panel_password' = panel_password
                     /\ socks5_port' = socks5_port /\ panel_port' = panel_port
                     /\ initialized'
             /\ last'.status = 200
                  => /\ ~initialized /\ initialized'
                     /\ IsBcryptHash(panel_password')
                     /\ VerifyPasswordAgainst(last'.password, panel_password')
                     /\ socks5_port' \in {DefaultSocks5Port} \cup (SetupSocks5Ports \ {NoPort})
                     /\ panel_port' \in {DefaultPanelPort} \cup (SetupPanelPorts \ {NoPort})
                     /\ IsAuthEnabled'
             /\ last'.status \notin {200, 409}
                  => /\ ~initialized'
                     /\ panel_password' = panel_password
                     /\ socks5_port' = socks5_port /\ panel_port' = panel_port]_vars
    /\ [][initialized => initialized']_vars
    /\ [][IsAuthEnabled => IsAuthEnabled']_vars

\* C40 witness: a second POST /initialize, with other ports and another
\* password, has just been refused on a panel that an earlier one
\* initialized with ports of its own.
C40_Witness ==
    /\ last.op = "initialize_panel"
    /\ last.status = 409
    /\ initialized
    /\ socks5_port = 1081 /\ panel_port = DefaultPanelPort
    /\ IsBcryptHash(panel_password)
    /\ ~VerifyPasswordAgainst(last.password, panel_password)
====
